---- MODULE Spec2Model ----
(***************************************************************************)
(* Formula evaluator (backend/app/formula_engine/evaluator.py), the        *)
(* entry-save driver (backend/app/entries/service.py) and the entry        *)
(* requests (backend/app/entries/routes.py) of org-insight.                *)
(*                                                                         *)
(* An expression is a sequence of lexemes; its text is their               *)
(* concatenation.  Numbers of small magnitude are exact rationals n/d       *)
(* (Python int and float are not told apart); floats around 2^53 are       *)
(* rounded as IEEE 754 doubles are.                                        *)
(***************************************************************************)
EXTENDS Integers, Sequences, FiniteSets, TLC

\* Scalar field values of a snapshot range over 0..MaxVal.
MaxVal == 1

\* Every well-lexed expression of at most MaxLen lexemes over ShortLexemes is
\* an input of evaluate_formula (longer ones come from Catalogue).
MaxLen == 3

\* A behaviour holds at most MaxSaves save requests and MaxUpdates field updates.
MaxSaves == 2

MaxUpdates == 1

\* A list field holds at most MaxRows rows in the calls of the function library.
MaxRows == 3

\* A scalar function is called with at most MaxArgs arguments.
MaxArgs == 3

(***************************************************************************)
(* Python values: one record shape for all kinds.                          *)
(*   k = "num"  : the number h * 2^53 + n/d, d > 0, n/d in lowest terms    *)
(*   k = "str"  : the string s                                             *)
(*   k = "bool" : True (n = 1) or False (n = 0)                            *)
(*   k = "none" : None                                                     *)
(*   k = "exc"  : a raised exception of class s                            *)
(*   k = "struct" : a list or a dict                                       *)
(* A number with h = 0 is an int or a float of small magnitude; its        *)
(* arithmetic is exact.  A number with h # 0 is a float of magnitude about *)
(* h * 2^53 (|n/d| is far below 2^52): the result of an operation on it is *)
(* rounded to the nearest float, ties to the even significand.             *)
(***************************************************************************)
Abs(n) == IF n < 0 THEN -n ELSE n

RECURSIVE Gcd(_, _)
Gcd(m, n) == IF n = 0 THEN m ELSE Gcd(n, m % n)

Num(n, d) ==
    LET g == Gcd(Abs(n), d)
    IN  [k |-> "num", h |-> 0, n |-> n \div g, d |-> d \div g, s |-> ""]

IntV(n) == [k |-> "num", h |-> 0, n |-> n, d |-> 1, s |-> ""]

Str(s) == [k |-> "str", h |-> 0, n |-> 0, d |-> 1, s |-> s]

Bool(b) == [k |-> "bool", h |-> 0, n |-> IF b THEN 1 ELSE 0, d |-> 1, s |-> ""]

None == [k |-> "none", h |-> 0, n |-> 0, d |-> 1, s |-> ""]

Exc(e) == [k |-> "exc", h |-> 0, n |-> 0, d |-> 1, s |-> e]

\* a list or a dict held in a cell
Struct == [k |-> "struct", h |-> 0, n |-> 0, d |-> 1, s |-> ""]

IsNum(v) == v.k = "num"

IsExc(v) == v.k = "exc"

\* isinstance(x, (int, float)): bool is a subclass of int.
IsIntOrFloat(v) == v.k \in {"num", "bool"}

\* float(x) of an int, float or bool.
AsFloat(v) == [k |-> "num", h |-> v.h, n |-> v.n, d |-> v.d, s |-> ""]

\* the float 2.0 ** 53 plus the even integer n
Big(n) == [k |-> "num", h |-> 1, n |-> n, d |-> 1, s |-> ""]

IsZero(x) == x.h = 0 /\ x.n = 0

Neg(x) == [x EXCEPT !.h = -x.h, !.n = -x.n]

\* the integer nearest to n/d (d > 0), ties to the even one
RoundHalfEven(n, d) ==
    LET q == n \div d
        r == n % d
    IN  IF 2 * r < d THEN q
        ELSE IF 2 * r > d THEN q + 1
        ELSE IF q % 2 = 0 THEN q ELSE q + 1

RECURSIVE P2(_)
\* the largest power of two that is at most h, for h >= 1
P2(h) == IF h = 1 THEN 1 ELSE 2 * P2(h \div 2)

\* The distance of neighbouring floats around h * 2^53 + n/d for h >= 1:
\* 2 from 2^53 on, 1 just below 2^53, and so on for each power of two.
Ulp(h, n) == IF n < 0 /\ h = P2(h) THEN P2(h) ELSE 2 * P2(h)

RECURSIVE Float(_, _, _)
\* The float nearest to the exact value h * 2^53 + n/d.
Float(h, n, d) ==
    IF h = 0 THEN Num(n, d)
    ELSE IF h < 0 THEN Neg(Float(-h, -n, d))
    ELSE [k |-> "num", h |-> h, n |-> RoundHalfEven(n, d * Ulp(h, n)) * Ulp(h, n),
          d |-> 1, s |-> ""]

NumAdd(x, y) == Float(x.h + y.h, x.n * y.d + y.n * x.d, x.d * y.d)

NumSub(x, y) == Float(x.h - y.h, x.n * y.d - y.n * x.d, x.d * y.d)

\* x * y; of a float of large magnitude only the product with an integer
NumMul(x, y) ==
    CASE x.h = 0 /\ y.h = 0 -> Num(x.n * y.n, x.d * y.d)
      [] x.h # 0 /\ y.h = 0 /\ y.d = 1 -> Float(x.h * y.n, x.n * y.n, x.d)
      [] x.h = 0 /\ y.h # 0 /\ x.d = 1 -> Float(y.h * x.n, y.n * x.n, y.d)

\* x / y for y # 0, both of small magnitude
NumDiv(x, y) ==
    CASE x.h = 0 /\ y.h = 0 /\ y.n > 0 -> Num(x.n * y.d, x.d * y.n)
      [] x.h = 0 /\ y.h = 0 /\ y.n < 0 -> Num(-(x.n * y.d), x.d * (-y.n))

NumLt(x, y) == x.h < y.h \/ (x.h = y.h /\ x.n * y.d < y.n * x.d)

NumLe(x, y) == x.h < y.h \/ (x.h = y.h /\ x.n * y.d <= y.n * x.d)

(***************************************************************************)
(* Lexemes.                                                                *)
(***************************************************************************)
\* The function registry of _make_evaluator (s.functions).
FunctionNames ==
    {"SUM", "AVG", "COUNT", "MIN", "MAX", "ROUND",
     "SUM_ITEMS", "AVG_ITEMS", "COUNT_ITEMS", "MIN_ITEMS", "MAX_ITEMS",
     "SUM_ITEMS_WHERE", "AVG_ITEMS_WHERE", "COUNT_ITEMS_WHERE",
     "MIN_ITEMS_WHERE", "MAX_ITEMS_WHERE", "KPI_FIELD"}

\* The operator names injected into the namespace.
OpNames == {"op_eq", "op_neq", "op_gt", "op_gte", "op_lt", "op_lte"}

\* Identifiers that occur in expressions: field keys, sub-keys, a key no field
\* has ("x"), operator names without the op_ prefix, the registry, a name
\* outside the registry ("NOFUNC").
NameLexemes ==
    {"a", "b", "c", "f1", "f2", "x", "items", "score", "status", "eq", "neq", "NOFUNC"}
        \cup FunctionNames \cup OpNames

\* Integer literals and their values.
NumberLexemes == {"0", "1", "2", "3", "42", "100"}

NumberValue(l) ==
    CASE l = "0" -> 0 [] l = "1" -> 1 [] l = "2" -> 2 [] l = "3" -> 3
      [] l = "42" -> 42 [] l = "100" -> 100

\* Quoted string literals whose content is made of word characters.
StringLexemes == {"'items'", "'score'", "'status'", "'a'", "'revenue'", "'op_eq'"}

StringValue(l) ==
    CASE l = "'items'" -> "items" [] l = "'score'" -> "score"
      [] l = "'status'" -> "status" [] l = "'a'" -> "a"
      [] l = "'revenue'" -> "revenue" [] l = "'op_eq'" -> "op_eq"

WhitespaceLexemes == {" "}

\* The symbols of the allow-list of evaluate_formula's pattern.
SymbolLexemes == {"+", "-", "*", "/", "(", ")", ".", ",", "\"", "'"}

\* Lexemes with a character outside the allow-list.
DisallowedLexemes == {";", "=", "'a;b'"}

\* A lexeme all of whose characters match [\w\s+\-*/().,"'].
AllowedLexeme(l) ==
    l \in NameLexemes \cup NumberLexemes \cup StringLexemes
            \cup WhitespaceLexemes \cup SymbolLexemes

WordLike(l) == l \in NameLexemes \cup NumberLexemes \cup StringLexemes \cup {"'a;b'"}

\* The concatenation of the lexemes lexes back into the same lexemes: no two
\* adjacent word or string lexemes (they would fuse), no "**", no "//".
WellLexed(e) ==
    \A i \in 1..(Len(e) - 1) :
        /\ ~(WordLike(e[i]) /\ WordLike(e[i + 1]))
        /\ ~(e[i] = "*" /\ e[i + 1] = "*")
        /\ ~(e[i] = "/" /\ e[i + 1] = "/")

\* not expression.strip()
IsBlank(e) == \A i \in 1..Len(e) : e[i] \in WhitespaceLexemes

\* expression.strip()
RECURSIVE strip(_)
strip(e) ==
    IF e = <<>> THEN e
    ELSE IF Head(e) \in WhitespaceLexemes THEN strip(Tail(e))
    ELSE IF e[Len(e)] \in WhitespaceLexemes THEN strip(SubSeq(e, 1, Len(e) - 1))
    ELSE e

\* re.match(r"^[\w\s+\-*/().,\"\']+$", expression)
GuardMatches(e) == Len(e) > 0 /\ \A i \in 1..Len(e) : AllowedLexeme(e[i])

\* The tokens of the text: whitespace separates and is dropped.
Tokens(e) == SelectSeq(e, LAMBDA l : l \notin WhitespaceLexemes)

(***************************************************************************)
(* ast.parse of the expression, for the tokens above.  A parse result is   *)
(* [ok, ast, i]: i is the index of the first token not consumed.           *)
(*   testlist := expr (',' expr)* [',']          (a comma makes a Tuple)   *)
(*   expr     := term (('+' | '-') term)*                                  *)
(*   term     := factor (('*' | '/') factor)*                              *)
(*   factor   := ('+' | '-') factor | primary                              *)
(*   primary  := atom ('(' [arg (',' arg)* [',']] ')')*                    *)
(*   arg      := expr | '*' expr                                           *)
(*   atom     := NAME | NUMBER | STRING | '(' ')' | '(' testlist ')'       *)
(***************************************************************************)
Fail == [ok |-> FALSE, ast |-> <<>>, i |-> 0]

Ok(ast, i) == [ok |-> TRUE, ast |-> ast, i |-> i]

Tok(t, i) == IF i <= Len(t) THEN t[i] ELSE "<end>"

\* Then(r, K): the parse continues with K on the result r of a sub-parse.
Then(r, K(_)) == K(r)

RECURSIVE ParseTestlist(_, _), ParseTestlistRest(_, _, _), ParseExpr(_, _)
RECURSIVE ParseExprRest(_, _, _), ParseTerm(_, _), ParseTermRest(_, _, _)
RECURSIVE ParseFactor(_, _), ParsePrimary(_, _), ParseTrailers(_, _, _)
RECURSIVE ParseArgs(_, _, _), ParseAtom(_, _)

ParseAtom(t, i) ==
    LET l == Tok(t, i)
    IN  IF l \in NameLexemes THEN Ok(<<"Name", l>>, i + 1)
        ELSE IF l \in NumberLexemes THEN Ok(<<"Num", NumberValue(l)>>, i + 1)
        ELSE IF l \in StringLexemes THEN Ok(<<"Str", StringValue(l)>>, i + 1)
        ELSE IF l = "(" THEN
            IF Tok(t, i + 1) = ")" THEN Ok(<<"Tuple", <<>>>>, i + 2)
            ELSE Then(ParseTestlist(t, i + 1), LAMBDA r :
                     IF r.ok /\ Tok(t, r.i) = ")" THEN Ok(r.ast, r.i + 1) ELSE Fail)
        ELSE Fail

\* acc: the arguments parsed so far; i is at an argument or at ')'.
ParseArgs(t, i, acc) ==
    IF Tok(t, i) = ")" THEN Ok(acc, i + 1)
    ELSE LET star == Tok(t, i) = "*"
         IN  Then(ParseExpr(t, IF star THEN i + 1 ELSE i), LAMBDA r :
                 LET arg == IF star THEN <<"Starred", r.ast>> ELSE r.ast
                 IN  IF ~r.ok THEN Fail
                     ELSE IF Tok(t, r.i) = "," THEN ParseArgs(t, r.i + 1, Append(acc, arg))
                     ELSE IF Tok(t, r.i) = ")" THEN Ok(Append(acc, arg), r.i + 1)
                     ELSE Fail)

ParseTrailers(t, i, left) ==
    IF Tok(t, i) = "(" THEN
        Then(ParseArgs(t, i + 1, <<>>), LAMBDA r :
            IF r.ok THEN ParseTrailers(t, r.i, <<"Call", left, r.ast>>) ELSE Fail)
    ELSE Ok(left, i)

ParsePrimary(t, i) ==
    Then(ParseAtom(t, i), LAMBDA r :
        IF r.ok THEN ParseTrailers(t, r.i, r.ast) ELSE Fail)

ParseFactor(t, i) ==
    IF Tok(t, i) \in {"+", "-"} THEN
        Then(ParseFactor(t, i + 1), LAMBDA r :
            IF r.ok THEN Ok(<<"UnaryOp", Tok(t, i), r.ast>>, r.i) ELSE Fail)
    ELSE ParsePrimary(t, i)

ParseTermRest(t, i, left) ==
    IF Tok(t, i) \in {"*", "/"} THEN
        Then(ParseFactor(t, i + 1), LAMBDA r :
            IF r.ok THEN ParseTermRest(t, r.i, <<"BinOp", Tok(t, i), left, r.ast>>)
            ELSE Fail)
    ELSE Ok(left, i)

ParseTerm(t, i) ==
    Then(ParseFactor(t, i), LAMBDA r :
        IF r.ok THEN ParseTermRest(t, r.i, r.ast) ELSE Fail)

ParseExprRest(t, i, left) ==
    IF Tok(t, i) \in {"+", "-"} THEN
        Then(ParseTerm(t, i + 1), LAMBDA r :
            IF r.ok THEN ParseExprRest(t, r.i, <<"BinOp", Tok(t, i), left, r.ast>>)
            ELSE Fail)
    ELSE Ok(left, i)

ParseExpr(t, i) ==
    Then(ParseTerm(t, i), LAMBDA r :
        IF r.ok THEN ParseExprRest(t, r.i, r.ast) ELSE Fail)

\* acc: the elements after at least one comma; i is at an element or past the end.
ParseTestlistRest(t, i, acc) ==
    IF Tok(t, i) \in {")", "<end>"} THEN Ok(<<"Tuple", acc>>, i)
    ELSE Then(ParseExpr(t, i), LAMBDA r :
             IF ~r.ok THEN Fail
             ELSE IF Tok(t, r.i) = "," THEN ParseTestlistRest(t, r.i + 1, Append(acc, r.ast))
             ELSE Ok(<<"Tuple", Append(acc, r.ast)>>, r.i))

ParseTestlist(t, i) ==
    Then(ParseExpr(t, i), LAMBDA r :
        IF ~r.ok THEN Fail
        ELSE IF Tok(t, r.i) = "," THEN ParseTestlistRest(t, r.i + 1, <<r.ast>>)
        ELSE r)

\* ast.parse(expr): the tree, or SyntaxError when the text is no expression.
Parse(e) ==
    LET t == Tokens(e)
    IN  Then(ParseTestlist(t, 1), LAMBDA r :
            IF r.ok /\ r.i = Len(t) + 1 THEN r ELSE Fail)

(***************************************************************************)
(* Namespace and function library of _make_evaluator.                      *)
(*   field_values : [keys -> Value]           (a number or None)           *)
(*   items_data   : [list keys -> Seq(row)], row : [sub-keys -> Value]     *)
(*   ref_values   : [{<<kpi_id, field_key>>} -> Value]                     *)
(***************************************************************************)
\* _SafeNames.__getitem__ with the absent key raising KeyError to the caller
\* (the lookup of a plain dict).
PlainNames_getitem(names, key) ==
    IF key \in DOMAIN names
    THEN (IF names[key].k = "none" THEN IntV(0) ELSE names[key])
    ELSE Exc("NameNotDefined")

\* _SafeNames.__getitem__: 0 for a None value and for an absent key.
SafeNames_getitem(names, key) ==
    IF key \in DOMAIN names
    THEN (IF names[key].k = "none" THEN IntV(0) ELSE names[key])
    ELSE IntV(0)

\* float(x.strip()) for the texts that occur in cells; ValueError otherwise.
NumericTexts == {"5", " 7 ", "1"}

TextValue(s) == CASE s = "5" -> 5 [] s = " 7 " -> 7 [] s = "1" -> 1

\* _to_num: a number for an int, float (and bool), for numeric text; else None.
to_num(x) ==
    IF x.k = "none" THEN None
    ELSE IF IsIntOrFloat(x) THEN AsFloat(x)
    ELSE IF x.k = "str" THEN (IF x.s \in NumericTexts THEN IntV(TextValue(x.s)) ELSE None)
    ELSE None

\* dict.get(key) on a dict with string keys: None when absent.
DictGet(dict, key) ==
    IF key.k = "str" /\ key.s \in DOMAIN dict THEN dict[key.s] ELSE None

\* data.get(field_key), [] unless it is a list
RowsOf(data, field_key) ==
    IF field_key.k = "str" /\ field_key.s \in DOMAIN data THEN data[field_key.s] ELSE <<>>

RECURSIVE MapToNum(_, _)
\* the numeric values of row.get(sub_key) over the rows, in order
MapToNum(rows, sub_key) ==
    IF rows = <<>> THEN <<>>
    ELSE LET n == to_num(DictGet(Head(rows), sub_key))
         IN  (IF n.k = "none" THEN <<>> ELSE <<n>>) \o MapToNum(Tail(rows), sub_key)

items_values(data, field_key, sub_key) == MapToNum(RowsOf(data, field_key), sub_key)

IsOp(op, name) == op.k = "str" /\ op.s = name

\* _row_matches where an operator that is none of the six selects every row
row_matches_unknown_selects(row, filter_sub_key, op, filter_value) ==
    LET n == to_num(DictGet(row, filter_sub_key))
        fnum == IsIntOrFloat(filter_value)
        fv == AsFloat(filter_value)
    IN  IF n.k = "none" THEN Bool(~IsOp(op, "eq"))
        ELSE IF IsOp(op, "eq") THEN Bool(fnum /\ n = fv)
        ELSE IF IsOp(op, "neq") THEN Bool(~(fnum /\ n = fv))
        ELSE IF op.k = "str" /\ op.s \in {"gt", "gte", "lt", "lte"} THEN
            IF ~fnum THEN Exc("TypeError")
            ELSE Bool(CASE op.s = "gt" -> NumLt(fv, n)
                        [] op.s = "gte" -> NumLe(fv, n)
                        [] op.s = "lt" -> NumLt(n, fv)
                        [] op.s = "lte" -> NumLe(n, fv))
        ELSE Bool(TRUE)

\* _row_matches: Bool, or TypeError when an ordering comparison meets a
\* filter value that is no number.
row_matches(row, filter_sub_key, op, filter_value) ==
    LET n == to_num(DictGet(row, filter_sub_key))
        fnum == IsIntOrFloat(filter_value)
        fv == AsFloat(filter_value)
    IN  IF n.k = "none" THEN Bool(IsOp(op, "neq"))
        ELSE IF IsOp(op, "eq") THEN Bool(fnum /\ n = fv)
        ELSE IF IsOp(op, "neq") THEN Bool(~(fnum /\ n = fv))
        ELSE IF op.k = "str" /\ op.s \in {"gt", "gte", "lt", "lte"} THEN
            IF ~fnum THEN Exc("TypeError")
            ELSE Bool(CASE op.s = "gt" -> NumLt(fv, n)
                        [] op.s = "gte" -> NumLe(fv, n)
                        [] op.s = "lt" -> NumLt(n, fv)
                        [] op.s = "lte" -> NumLe(n, fv))
        ELSE Bool(FALSE)

\* _rows_where: [exc, rows]
rows_where(data, field_key, filter_sub_key, op, filter_value) ==
    LET rows == RowsOf(data, field_key)
        m(r) == row_matches(r, filter_sub_key, op, filter_value)
    IN  IF \E i \in 1..Len(rows) : IsExc(m(rows[i]))
        THEN [exc |-> TRUE, rows |-> <<>>]
        ELSE [exc |-> FALSE, rows |-> SelectSeq(rows, LAMBDA r : m(r).n = 1)]

\* the loop of _items_values_where without the test of the row
ValuesUnfiltered(rows, value_sub_key, filter_sub_key, op, filter_value) ==
    [exc |-> FALSE, vals |-> MapToNum(rows, value_sub_key)]

RECURSIVE ValuesWhere(_, _, _, _, _)
\* the loop of _items_values_where over rows: a row that does not match is
\* skipped, the numeric value cell of a matching row is appended
ValuesWhere(rows, value_sub_key, filter_sub_key, op, filter_value) ==
    IF rows = <<>> THEN [exc |-> FALSE, vals |-> <<>>]
    ELSE LET m == row_matches(Head(rows), filter_sub_key, op, filter_value)
             n == to_num(DictGet(Head(rows), value_sub_key))
             rest == ValuesWhere(Tail(rows), value_sub_key, filter_sub_key, op, filter_value)
         IN  IF IsExc(m) \/ rest.exc THEN [exc |-> TRUE, vals |-> <<>>]
             ELSE IF m.n = 0 \/ n.k = "none" THEN rest
             ELSE [exc |-> FALSE, vals |-> <<n>> \o rest.vals]

\* _items_values_where: [exc, vals]
items_values_where(data, field_key, value_sub_key, filter_sub_key, op, filter_value) ==
    ValuesWhere(RowsOf(data, field_key), value_sub_key, filter_sub_key, op, filter_value)

RECURSIVE SumSeq(_), MinSeq(_), MaxSeq(_)
SumSeq(vals) == IF vals = <<>> THEN IntV(0) ELSE NumAdd(Head(vals), SumSeq(Tail(vals)))

MinSeq(vals) ==
    IF Len(vals) = 1 THEN vals[1]
    ELSE LET m == MinSeq(Tail(vals)) IN IF NumLe(Head(vals), m) THEN Head(vals) ELSE m

MaxSeq(vals) ==
    IF Len(vals) = 1 THEN vals[1]
    ELSE LET m == MaxSeq(Tail(vals)) IN IF NumLe(m, Head(vals)) THEN Head(vals) ELSE m

AvgOrZero(vals) == IF vals = <<>> THEN IntV(0) ELSE NumDiv(SumSeq(vals), IntV(Len(vals)))

MinOrZero(vals) == IF vals = <<>> THEN IntV(0) ELSE MinSeq(vals)

MaxOrZero(vals) == IF vals = <<>> THEN IntV(0) ELSE MaxSeq(vals)

sum_items(data, a) == SumSeq(items_values(data, a[1], a[2]))

avg_items(data, a) == AvgOrZero(items_values(data, a[1], a[2]))

min_items(data, a) == MinOrZero(items_values(data, a[1], a[2]))

max_items(data, a) == MaxOrZero(items_values(data, a[1], a[2]))

\* count_items that counts the numeric cells only
count_items_numeric(data, a) ==
    IF Len(a) = 2 THEN IntV(Len(items_values(data, a[1], a[2])))
    ELSE IntV(Len(RowsOf(data, a[1])))

\* count_items(field_key, sub_key=None)
count_items(data, a) ==
    LET rows == RowsOf(data, a[1])
        sub_key == IF Len(a) = 2 THEN a[2] ELSE None
    IN  IF sub_key.k = "none" \/ (sub_key.k = "str" /\ sub_key.s = "")
        THEN IntV(Len(rows))
        ELSE IntV(Len(SelectSeq(rows, LAMBDA r : DictGet(r, sub_key).k # "none")))

WhereResult(w, reduce(_)) == IF w.exc THEN Exc("TypeError") ELSE reduce(w.vals)

sum_items_where(data, a) ==
    WhereResult(items_values_where(data, a[1], a[2], a[3], a[4], a[5]), SumSeq)

avg_items_where(data, a) ==
    WhereResult(items_values_where(data, a[1], a[2], a[3], a[4], a[5]), AvgOrZero)

min_items_where(data, a) ==
    WhereResult(items_values_where(data, a[1], a[2], a[3], a[4], a[5]), MinOrZero)

max_items_where(data, a) ==
    WhereResult(items_values_where(data, a[1], a[2], a[3], a[4], a[5]), MaxOrZero)

count_items_where(data, a) ==
    LET w == rows_where(data, a[1], a[2], a[3], a[4])
    IN  IF w.exc THEN Exc("TypeError") ELSE IntV(Len(w.rows))

\* kpi_field as ref_values[(kpi_id, field_key)]: a miss is a KeyError
kpi_field_strict(refs, a) ==
    IF /\ a[1].k = "num" /\ a[1].h = 0 /\ a[1].d = 1 /\ a[2].k = "str"
       /\ <<a[1].n, a[2].s>> \in DOMAIN refs
    THEN refs[<<a[1].n, a[2].s>>]
    ELSE Exc("KeyError")

\* kpi_field: ref_values.get((kpi_id, field_key), 0.0)
kpi_field(refs, a) ==
    IF /\ a[1].k = "num" /\ a[1].h = 0 /\ a[1].d = 1 /\ a[2].k = "str"
       /\ <<a[1].n, a[2].s>> \in DOMAIN refs
    THEN refs[<<a[1].n, a[2].s>>]
    ELSE IntV(0)

\* [float(x) for x in a if x is not None]: text is not left out
NotNoneNums(a) ==
    LET kept == SelectSeq(a, LAMBDA x : x.k # "none")
    IN  [i \in 1..Len(kept) |-> AsFloat(kept[i])]

\* [float(x) for x in a if x is not None and isinstance(x, (int, float))]
SafeNums(a) ==
    LET kept == SelectSeq(a, IsIntOrFloat) IN [i \in 1..Len(kept) |-> AsFloat(kept[i])]

safe_sum(a) == SumSeq(SafeNums(a))

safe_avg(a) == AvgOrZero(SafeNums(a))

safe_min(a) == MinOrZero(SafeNums(a))

safe_max(a) == MaxOrZero(SafeNums(a))

\* "COUNT": lambda *a: len([x for x in a if x is not None])
count_args(a) == IntV(Len(SelectSeq(a, LAMBDA x : x.k # "none")))

RECURSIVE Pow10(_)
Pow10(n) == IF n = 0 THEN 1 ELSE 10 * Pow10(n - 1)

\* "ROUND": round(number[, ndigits]) on exact values
round(a) ==
    IF a[1].k # "num" THEN Exc("TypeError")
    ELSE IF a[1].h # 0 THEN a[1]
    ELSE IF Len(a) = 1 \/ a[2].k = "none" THEN IntV(RoundHalfEven(a[1].n, a[1].d))
    ELSE IF a[2].k # "num" \/ a[2].d # 1 THEN Exc("TypeError")
    ELSE IF a[2].n >= 0
         THEN Num(RoundHalfEven(a[1].n * Pow10(a[2].n), a[1].d), Pow10(a[2].n))
         ELSE IntV(RoundHalfEven(a[1].n, a[1].d * Pow10(-a[2].n)) * Pow10(-a[2].n))

\* The numbers of positional arguments each registered function accepts.
Arity(f) ==
    CASE f \in {"SUM", "AVG", "COUNT", "MIN", "MAX"} -> Nat
      [] f = "ROUND" -> {1, 2}
      [] f \in {"SUM_ITEMS", "AVG_ITEMS", "MIN_ITEMS", "MAX_ITEMS", "KPI_FIELD"} -> {2}
      [] f = "COUNT_ITEMS" -> {1, 2}
      [] f = "COUNT_ITEMS_WHERE" -> {4}
      [] f \in {"SUM_ITEMS_WHERE", "AVG_ITEMS_WHERE", "MIN_ITEMS_WHERE",
                "MAX_ITEMS_WHERE"} -> {5}

\* s.functions[f](*a): a call with a wrong number of arguments is a TypeError.
Apply(ev, f, a) ==
    IF Len(a) \notin Arity(f) THEN Exc("TypeError")
    ELSE CASE f = "SUM" -> safe_sum(a)
           [] f = "AVG" -> safe_avg(a)
           [] f = "COUNT" -> count_args(a)
           [] f = "MIN" -> safe_min(a)
           [] f = "MAX" -> safe_max(a)
           [] f = "ROUND" -> round(a)
           [] f = "SUM_ITEMS" -> sum_items(ev.items_data, a)
           [] f = "AVG_ITEMS" -> avg_items(ev.items_data, a)
           [] f = "COUNT_ITEMS" -> count_items(ev.items_data, a)
           [] f = "MIN_ITEMS" -> min_items(ev.items_data, a)
           [] f = "MAX_ITEMS" -> max_items(ev.items_data, a)
           [] f = "SUM_ITEMS_WHERE" -> sum_items_where(ev.items_data, a)
           [] f = "AVG_ITEMS_WHERE" -> avg_items_where(ev.items_data, a)
           [] f = "COUNT_ITEMS_WHERE" -> count_items_where(ev.items_data, a)
           [] f = "MIN_ITEMS_WHERE" -> min_items_where(ev.items_data, a)
           [] f = "MAX_ITEMS_WHERE" -> max_items_where(ev.items_data, a)
           [] f = "KPI_FIELD" -> kpi_field(ev.ref_values, a)

\* op_name.replace("op_", "")
OpOf(name) ==
    CASE name = "op_eq" -> "eq" [] name = "op_neq" -> "neq" [] name = "op_gt" -> "gt"
      [] name = "op_gte" -> "gte" [] name = "op_lt" -> "lt" [] name = "op_lte" -> "lte"

\* the union of the keys of all rows of all list fields
SubKeysOf(data) ==
    UNION {UNION {DOMAIN data[f][i] : i \in 1..Len(data[f])} : f \in DOMAIN data}

\* _make_evaluator with the sub-keys bound over the names that exist
make_evaluator_sub_keys_overwrite(field_values, multi_line_items_data, other_kpi_values) ==
    LET withLists == [f \in DOMAIN multi_line_items_data |-> Str(f)] @@ field_values
        withSubs  == [sk \in SubKeysOf(multi_line_items_data) |-> Str(sk)] @@ withLists
        withOps   == [o \in OpNames |-> Str(OpOf(o))] @@ withSubs
    IN  [names |-> withOps,
         items_data |-> multi_line_items_data,
         ref_values |-> other_kpi_values]

\* _make_evaluator without the injection of the sub-keys
make_evaluator_without_sub_keys(field_values, multi_line_items_data, other_kpi_values) ==
    LET withLists == [f \in DOMAIN multi_line_items_data |-> Str(f)] @@ field_values
        withOps   == [o \in OpNames |-> Str(OpOf(o))] @@ withLists
    IN  [names |-> withOps,
         items_data |-> multi_line_items_data,
         ref_values |-> other_kpi_values]

\* _make_evaluator: the namespace, the list data and the cross-KPI values the
\* functions close over.  In f @@ g the bindings of f win.
make_evaluator(field_values, multi_line_items_data, other_kpi_values) ==
    LET withLists == [f \in DOMAIN multi_line_items_data |-> Str(f)] @@ field_values
        withSubs  == withLists @@ [sk \in SubKeysOf(multi_line_items_data) |-> Str(sk)]
        withOps   == [o \in OpNames |-> Str(OpOf(o))] @@ withSubs
    IN  [names |-> withOps,
         items_data |-> multi_line_items_data,
         ref_values |-> other_kpi_values]

(***************************************************************************)
(* SimpleEval.eval: evaluation of the tree.  The result is a Value; a      *)
(* raised exception is the Value Exc(class) and ends the evaluation.       *)
(***************************************************************************)
RECURSIVE StrRepeat(_, _)
StrRepeat(s, n) == IF n <= 0 THEN "" ELSE s \o StrRepeat(s, n - 1)

\* s.operators with the operands of - and / taken in the wrong order
BinOpSwapped(op, x, y) ==
    IF x.k # "num" \/ y.k # "num" THEN Exc("TypeError")
    ELSE CASE op = "+" -> NumAdd(x, y)
           [] op = "-" -> NumSub(y, x)
           [] op = "*" -> NumMul(x, y)
           [] op = "/" -> IF IsZero(x) THEN Exc("ZeroDivisionError") ELSE NumDiv(y, x)

\* s.operators: + - * / on two evaluated operands
BinOp(op, x, y) ==
    CASE op = "+" ->
            IF x.k = "num" /\ y.k = "num" THEN NumAdd(x, y)
            ELSE IF x.k = "str" /\ y.k = "str" THEN Str(x.s \o y.s)
            ELSE Exc("TypeError")
      [] op = "-" ->
            IF x.k = "num" /\ y.k = "num" THEN NumSub(x, y) ELSE Exc("TypeError")
      [] op = "*" ->
            IF x.k = "num" /\ y.k = "num" THEN NumMul(x, y)
            ELSE IF x.k = "str" /\ y.k = "num" /\ y.h = 0 /\ y.d = 1 THEN Str(StrRepeat(x.s, y.n))
            ELSE IF x.k = "num" /\ y.k = "str" /\ x.h = 0 /\ x.d = 1 THEN Str(StrRepeat(y.s, x.n))
            ELSE Exc("TypeError")
      [] op = "/" ->
            IF x.k = "num" /\ y.k = "num"
            THEN (IF IsZero(y) THEN Exc("ZeroDivisionError") ELSE NumDiv(x, y))
            ELSE Exc("TypeError")

UnaryOp(op, x) ==
    IF x.k # "num" THEN Exc("TypeError")
    ELSE IF op = "-" THEN Neg(x) ELSE x

RECURSIVE Eval(_, _), EvalArgs(_, _, _)

\* the arguments left to right: [exc, vals]; the first exception ends it
EvalArgs(ev, args, acc) ==
    IF args = <<>> THEN [exc |-> None, vals |-> acc]
    ELSE LET x == Eval(ev, Head(args))
         IN  IF IsExc(x) THEN [exc |-> x, vals |-> <<>>]
             ELSE EvalArgs(ev, Tail(args), Append(acc, x))

Eval(ev, node) ==
    CASE node[1] = "Num" -> IntV(node[2])
      [] node[1] = "Str" -> Str(node[2])
      [] node[1] = "Name" -> SafeNames_getitem(ev.names, node[2])
      [] node[1] = "UnaryOp" ->
            LET x == Eval(ev, node[3])
            IN  IF IsExc(x) THEN x ELSE UnaryOp(node[2], x)
      [] node[1] = "BinOp" ->
            LET x == Eval(ev, node[3])
            IN  IF IsExc(x) THEN x
                ELSE LET y == Eval(ev, node[4])
                     IN  IF IsExc(y) THEN y ELSE BinOp(node[2], x, y)
      [] node[1] = "Call" ->
            IF node[2][1] # "Name" THEN Exc("FeatureNotAvailable")
            ELSE IF node[2][2] \notin FunctionNames THEN Exc("FunctionNotDefined")
            ELSE LET r == EvalArgs(ev, node[3], <<>>)
                 IN  IF IsExc(r.exc) THEN r.exc ELSE Apply(ev, node[2][2], r.vals)
      [] node[1] \in {"Tuple", "Starred"} -> Exc("FeatureNotAvailable")

\* ev.eval(expression): parse, then evaluate
SimpleEval_eval(ev, expression) ==
    LET p == Parse(expression)
    IN  IF ~p.ok THEN Exc("SyntaxError") ELSE Eval(ev, p.ast)

\* an except clause that lacks ZeroDivisionError
CaughtWithoutZeroDivision == {"NameNotDefined", "TypeError", "KeyError"}

\* an except clause that lacks TypeError
CaughtWithoutTypeError == {"NameNotDefined", "ZeroDivisionError", "KeyError"}

\* The exception classes of evaluate_formula's except clause.
Caught == {"NameNotDefined", "ZeroDivisionError", "TypeError", "KeyError"}

\* The outcome of one call: the returned value (a number or None), the class
\* of the exception that escaped ("" when the call returned), and how far the
\* call went: guard (the pattern was applied), built (the evaluator was
\* constructed and ev.eval ran).
Outcome(result, raised, guard, built) ==
    [result |-> result, raised |-> raised, guard |-> guard, built |-> built]

\* the pattern test that accepts every text
GuardAcceptsAll(e) == Len(e) > 0

\* the guard of evaluate_formula on the stripped text
Guard(e) == GuardMatches(e)

\* evaluate_formula without the early return for a blank expression
evaluate_formula_noblank(expression, field_values, multi_line_items_data, other_kpi_values) ==
    LET e == strip(expression)
    IN  IF ~Guard(e) THEN Outcome(None, "", TRUE, FALSE)
        ELSE LET ev == make_evaluator(field_values, multi_line_items_data, other_kpi_values)
                 r == SimpleEval_eval(ev, e)
             IN  IF IsExc(r)
                 THEN (IF r.s \in Caught THEN Outcome(None, "", TRUE, TRUE)
                       ELSE Outcome(None, r.s, TRUE, TRUE))
                 ELSE IF IsIntOrFloat(r) THEN Outcome(r, "", TRUE, TRUE)
                 ELSE Outcome(None, "", TRUE, TRUE)

evaluate_formula(expression, field_values, multi_line_items_data, other_kpi_values) ==
    IF expression = <<>> \/ IsBlank(expression) THEN Outcome(None, "", FALSE, FALSE)
    ELSE LET e == strip(expression)
         IN  IF ~Guard(e) THEN Outcome(None, "", TRUE, FALSE)
             ELSE LET ev == make_evaluator(field_values, multi_line_items_data,
                                           other_kpi_values)
                      r == SimpleEval_eval(ev, e)
                  IN  IF IsExc(r)
                      THEN (IF r.s \in Caught THEN Outcome(None, "", TRUE, TRUE)
                            ELSE Outcome(None, r.s, TRUE, TRUE))
                      ELSE IF IsIntOrFloat(r) THEN Outcome(r, "", TRUE, TRUE)
                      ELSE Outcome(None, "", TRUE, TRUE)

\* the caller's maps after a call in which the namespace is built in the
\* caller's field_values instead of a copy
ArgumentsAfterInPlace(expression, field_values, multi_line_items_data, other_kpi_values) ==
    [field_values |->
        IF expression = <<>> \/ IsBlank(expression) \/ ~Guard(strip(expression))
        THEN field_values
        ELSE make_evaluator(field_values, multi_line_items_data, other_kpi_values).names,
     items |-> multi_line_items_data,
     refs |-> other_kpi_values]

\* The caller's three maps after a call of evaluate_formula: the namespace is
\* built in a copy, dict(field_values), and the list data and the cross-KPI
\* values are only read.
ArgumentsAfter(expression, field_values, multi_line_items_data, other_kpi_values) ==
    [field_values |-> field_values,
     items |-> multi_line_items_data,
     refs |-> other_kpi_values]

(***************************************************************************)
(* Inputs of evaluate_formula.                                             *)
(***************************************************************************)
\* The lexemes of the exhaustively enumerated expressions.
ShortLexemes == {"a", "b", "1", "+", "/", "(", ")", ";", " "}

RECURSIVE SeqsUpTo(_, _)
\* all sequences over S of length 0..n
SeqsUpTo(S, n) ==
    IF n = 0 THEN {<<>>}
    ELSE LET shorter == SeqsUpTo(S, n - 1)
         IN  shorter \cup {Append(q, x) : q \in {r \in shorter : Len(r) = n - 1}, x \in S}

ShortExpressions == {e \in SeqsUpTo(ShortLexemes, MaxLen) : WellLexed(e)}

\* Longer expressions: the scenarios of the specification and one expression
\* for each way an evaluation can end.
Catalogue ==
    { <<"a", " ", "+", " ", "b">>,
      <<"a", " ", "/", " ", "b">>,
      <<"a", ";", " ", "NOFUNC">>,
      <<"a", "+", "b", "=", "1">>,
      <<"SUM", "(", "'a;b'", ")">>,
      <<" ", "a", "+", "x", " ">>,
      <<"(", "a", "+", "b", ")", "*", "2">>,
      <<"a", "-", "-", "b">>,
      <<"a", "/", "(", "b", "-", "b", ")">>,
      <<"SUM", "(", "a", ",", "b", ")">>,
      <<"AVG", "(", ")">>,
      <<"ROUND", "(", ")">>,
      <<"ROUND", "(", "a", "/", "3", ",", "1", ")">>,
      <<"NOFUNC", "(", "a", ")">>,
      <<"NOFUNC", "(", "a", "/", "0", ")">>,
      <<"SUM", "(", "a", "/", "0", ",", "NOFUNC", "(", ")", ")">>,
      <<"SUM", "(", "*", "a", ")">>,
      <<"(", "a", ",", "b", ")">>,
      <<"a", "(", "b", ")">>,
      <<"'a'", "+", "a">>,
      <<"'a'", "+", "'a'">>,
      <<"items", "+", "1">>,
      <<"SUM_ITEMS", "(", "items", ",", "score", ")">>,
      <<"SUM_ITEMS", "(", "'items'", ",", "'score'", ")">>,
      <<"SUM_ITEMS", "(", "items", ")">>,
      <<"SUM_ITEMS", "(", "items", ",", "score", ",", "1", ")">>,
      <<"COUNT_ITEMS", "(", "items", ")">>,
      <<"COUNT_ITEMS", "(", ")">>,
      <<"COUNT_ITEMS_WHERE", "(", "items", ",", "status", ",", "op_eq", ",", "1", ")">>,
      <<"COUNT_ITEMS_WHERE", "(", "items", ",", "status", ",", "op_gt", ",", "'a'", ")">>,
      <<"KPI_FIELD", "(", "42", ",", "'revenue'", ")", "/", "100">>,
      <<"KPI_FIELD", "(", "42", ")">>,
      <<"a", "/", "KPI_FIELD", "(", "3", ",", "'revenue'", ")">> }

Expressions == ShortExpressions \cup Catalogue

\* A dict from some of the keys to values.
Dicts(keys, values) == UNION {[d -> values] : d \in SUBSET keys}

\* field_values: a and b, each absent, None or a number
FieldValueMaps == Dicts({"a", "b"}, {None} \cup {IntV(n) : n \in 0..MaxVal})

\* The rows of scenario 2 and 3 of the specification, with a missing cell.
Rows1 ==
    << [score |-> IntV(10), status |-> IntV(1)],
       [score |-> Str("x"), status |-> IntV(0)],
       [score |-> IntV(5)] >>

NoItems == [f \in {} |-> <<>>]

Items1 == [f \in {"items"} |-> Rows1]

NoRefs == [p \in {} |-> None]

Refs1 == [p \in {<<42, "revenue">>} |-> IntV(250000)]

Snapshots ==
    {[field_values |-> fv, items |-> it.items, refs |-> it.refs] :
        fv \in FieldValueMaps,
        it \in {[items |-> NoItems, refs |-> NoRefs], [items |-> Items1, refs |-> Refs1]}}

(***************************************************************************)
(* The KPI of the entry: its fields in declared order (KPI.fields, ordered *)
(* by sort_order).  A field id is the field's position.  An absent (None)  *)
(* formula_expression is the empty sequence, like the empty string.        *)
(***************************************************************************)
Field(key, field_type, formula_expression) ==
    [key |-> key, field_type |-> field_type, formula_expression |-> formula_expression]

Fields0 ==
    << Field("a", "number", <<>>),
       Field("b", "number", <<>>),
       Field("f1", "formula", <<"a", " ", "+", " ", "b">>),
       Field("items", "multi_line_items", <<>>),
       Field("f2", "formula", <<"f1", "*", "2">>) >>

FieldIds == 1..Len(Fields0)

FieldIdsOfType(t) == {i \in FieldIds : Fields0[i].field_type = t}

\* The expressions an administrator gives to a formula field (update_field).
FieldExpressions(i) ==
    IF Fields0[i].key = "f1"
    THEN { <<"a", " ", "+", " ", "b">>,
           <<"a", "/", "b">>,
           <<"f2", "+", "1">>,
           <<"a", ";", "b">>,
           <<"a", "+">>,
           <<"NOFUNC", "(", "a", ")">>,
           <<"SUM_ITEMS", "(", "items", ")">>,
           <<" ">>,
           <<>> }
    ELSE { <<"f1", "*", "2">>,
           <<"SUM_ITEMS", "(", "items", ",", "score", ")">>,
           <<"'a'", "+", "a">>,
           <<>> }

\* A stored value_json: a list of rows, or anything else (None).
JsonNone == [is_list |-> FALSE, rows |-> <<>>]

JsonList(rows) == [is_list |-> TRUE, rows |-> rows]

\* A KPIFieldValue row of the entry; a missing row and a row of nulls are the
\* same record.
FieldValue(value_number, value_json) ==
    [value_number |-> value_number, value_json |-> value_json]

NoValue == FieldValue(None, JsonNone)

\* The values of a save request: value_number (None, 0 or MaxVal) for number
\* fields and value_json for list fields, each for some of the fields.
Requests ==
    {[number |-> n, json |-> j] :
        n \in Dicts(FieldIdsOfType("number"), {None, IntV(0), IntV(MaxVal)}),
        j \in Dicts(FieldIdsOfType("multi_line_items"), {JsonList(Rows1)})}

NoRequest == [number |-> [i \in {} |-> None], json |-> [i \in {} |-> JsonNone],
              user_id |-> 0, op |-> ""]

\* The values of a request with its current user and its operation.  Times
\* are readings of a clock that every data request advances by one.
Request(r, user_id, op) ==
    [number |-> r.number, json |-> r.json, user_id |-> user_id, op |-> op]

NoNames == [k \in {} |-> None]

\* The entry of the save requests: KPI 7 of organization 1, year 2024.
Entry == [kpi_id |-> 7, organization_id |-> 1, year |-> 2024, user_id |-> 1]

\* KPIEntry(user_id=user_id, is_draft=True): the attributes of a new entry row.
KPIEntry(user_id) ==
    [user_id |-> user_id, is_draft |-> TRUE, submitted_at |-> None, updated_at |-> IntV(0)]

\* A KPIFieldValue of an entry, joined with its entry and its field.
StoredValue(org, year, kpi, key, field_type, value_number) ==
    [organization_id |-> org, year |-> year, kpi_id |-> kpi, key |-> key,
     field_type |-> field_type, value_number |-> value_number]

\* The stored values of all entries: KPI 42 and KPI 3 of the organization in
\* the year (a number, a formula result, a null number, a text field that
\* holds a number), the entry's own KPI, another year, another organization.
StoredValues ==
    { StoredValue(1, 2024, 42, "revenue", "number", IntV(250000)),
      StoredValue(1, 2024, 42, "empty", "number", None),
      StoredValue(1, 2024, 42, "note", "single_line_text", IntV(9)),
      StoredValue(1, 2024, 3, "total", "formula", IntV(12)),
      StoredValue(1, 2024, 7, "a", "number", IntV(1)),
      StoredValue(1, 2023, 42, "revenue", "number", IntV(888)),
      StoredValue(1, 2023, 7, "a", "number", IntV(5)),
      StoredValue(2, 2024, 42, "revenue", "number", IntV(999)),
      StoredValue(2, 2024, 3, "total", "formula", IntV(77)) }

\* the loader without the exclusion of the entry's own KPI
load_all_kpi_values(year, org_id, exclude_kpi_id) ==
    LET kept == {v \in StoredValues :
                    /\ v.organization_id = org_id
                    /\ v.year = year
                    /\ v.value_number.k # "none"
                    /\ v.field_type \in {"number", "formula"}}
    IN  [p \in {<<v.kpi_id, v.key>> : v \in kept} |->
            (CHOOSE v \in kept : <<v.kpi_id, v.key>> = p).value_number]

\* _load_other_kpi_values: the non-null numbers of the number and formula
\* fields of the organization's entries of the year for the other KPIs.
load_other_kpi_values(year, org_id, exclude_kpi_id) ==
    LET kept == {v \in StoredValues :
                    /\ v.organization_id = org_id
                    /\ v.year = year
                    /\ v.kpi_id # exclude_kpi_id
                    /\ v.value_number.k # "none"
                    /\ v.field_type \in {"number", "formula"}}
    IN  [p \in {<<v.kpi_id, v.key>> : v \in kept} |->
            (CHOOSE v \in kept : <<v.kpi_id, v.key>> = p).value_number]

(***************************************************************************)
(* The table kpi_entries and the callers of get_or_create_entry.           *)
(***************************************************************************)
\* Number of concurrent requests that call get_or_create_entry.
MaxCalls == 2

Callers == 1..MaxCalls

\* KPI 7 belongs to organization 1; there is no KPI 9 (organization None, 0).
KpiIds == {7, 9}

OrgIds == {1, 2}

Years == {2024, 2025}

\* _resolve_org_and_kpi
resolve_org_and_kpi(kpi_id) == IF kpi_id = 7 THEN 1 ELSE 0

\* The arguments of a call.
CallArgs == {[organization_id |-> o, kpi_id |-> k, year |-> y] :
                o \in OrgIds, k \in KpiIds, y \in Years}

\* A row of kpi_entries, inserted by transaction tx, committed or not.
EntryRow(tx, a, committed) ==
    [tx |-> tx, organization_id |-> a.organization_id, kpi_id |-> a.kpi_id,
     year |-> a.year, committed |-> committed]

\* A caller before its request.
NotCalled == [pc |-> "idle", args |-> [organization_id |-> 0, kpi_id |-> 0, year |-> 0],
              entry |-> FALSE, created |-> FALSE]

\* the row is of the (organization, KPI, year)
OfKey(r, a) ==
    /\ r.organization_id = a.organization_id
    /\ r.kpi_id = a.kpi_id
    /\ r.year = a.year

\* the table without its unique constraint
NoConflicting(rows, a) == {}

\* uq_kpi_entry_org_kpi_year: the rows an insert of (organization, KPI, year)
\* conflicts with
Conflicting(rows, a) == {r \in rows : OfKey(r, a)}

(***************************************************************************)
(* State.                                                                  *)
(***************************************************************************)
VARIABLES
    call,          \* evaluate_formula: the expression and the snapshot of one call
    outcome,       \* evaluate_formula: Pending, or the Outcome of the call
    fields,        \* kpi.fields
    db,            \* committed KPIFieldValue rows of the entry, by field id
    is_locked,     \* entry.is_locked
    pc,            \* save request: "idle", "formulas", "returned", "raised", "refused"
    req,           \* the values of the running save request
    session,       \* the session's KPIFieldValue rows (db plus the run's writes)
    value_by_key,  \* save_entry_values: the scalar namespace
    multi_line_items_data,  \* save_entry_values: the list data
    other_kpi_values,       \* save_entry_values: the cross-KPI values
    idx,           \* save_entry_values: position of the formula loop in kpi.fields
    saves,         \* number of save requests so far
    updates,       \* number of field updates so far
    entry,         \* committed KPIEntry row: user_id, is_draft, submitted_at, updated_at
    now,           \* the clock (utcnow), advanced by every data request
    kpi_entries,   \* table kpi_entries: the rows, committed or pending in a transaction
    calls          \* get_or_create_entry: the position and arguments of each caller

evalVars == <<call, outcome>>

kpiVars == <<fields, db, is_locked>>

entryVars == <<entry, now>>

tableVars == <<kpi_entries, calls>>

countVars == <<saves, updates>>

runVars == <<pc, req, session, value_by_key, multi_line_items_data, other_kpi_values, idx>>

vars == <<call, outcome, fields, db, is_locked, pc, req, session, value_by_key,
          multi_line_items_data, other_kpi_values, idx, saves, updates, entry, now,
          kpi_entries, calls>>

Pending == [result |-> None, raised |-> "pending", guard |-> FALSE, built |-> FALSE]

NoCall == [expression |-> <<>>,
           snapshot |-> [field_values |-> NoNames, items |-> NoItems, refs |-> NoRefs]]

\* The KPI with its fields, a fresh draft entry without values, no request.
InitEntry ==
    /\ fields = Fields0
    /\ db = [i \in FieldIds |-> NoValue]
    /\ is_locked = FALSE
    /\ pc = "idle"
    /\ req = NoRequest
    /\ session = [i \in FieldIds |-> NoValue]
    /\ value_by_key = NoNames
    /\ multi_line_items_data = NoItems
    /\ other_kpi_values = NoRefs
    /\ idx = 0
    /\ saves = 0
    /\ updates = 0
    /\ entry = KPIEntry(Entry.user_id)
    /\ now = 0
    /\ kpi_entries = {EntryRow(0, Entry, TRUE)}
    /\ calls = [p \in Callers |-> NotCalled]

(***************************************************************************)
(* evaluate_formula as a function of its inputs.                           *)
(***************************************************************************)
InitEval ==
    /\ call \in {[expression |-> e, snapshot |-> s] : e \in Expressions, s \in Snapshots}
    /\ outcome = Pending
    /\ InitEntry

\* One call of evaluate_formula on the drawn inputs.
EvaluateFormula ==
    /\ outcome = Pending
    /\ outcome' = evaluate_formula(call.expression, call.snapshot.field_values,
                                   call.snapshot.items, call.snapshot.refs)
    /\ UNCHANGED <<call, kpiVars, runVars, countVars, entryVars, tableVars>>

NextEval == EvaluateFormula

SpecEval == InitEval /\ [][NextEval]_vars

(***************************************************************************)
(* evaluate_formula on purely arithmetic expressions over the scalar keys  *)
(* a, b and c, all with supplied values.                                   *)
(***************************************************************************)
Sp(x, op, y) == <<x, " ", op, " ", y>>

\* Purely arithmetic expressions whose only operators are + and -.
AdditiveExpressions ==
    { Sp("a", "+", "b"), Sp("b", "+", "a"),
      <<"(", "a", " ", "+", " ", "b", ")", " ", "+", " ", "c">>,
      <<"a", " ", "+", " ", "(", "b", " ", "+", " ", "c", ")">>,
      <<"a", " ", "+", " ", "b", " ", "+", " ", "c">>,
      <<"a", " ", "-", " ", "b", " ", "-", " ", "c">>,
      <<"a", " ", "-", " ", "(", "b", " ", "-", " ", "c", ")">>,
      <<"a", " ", "-", " ", "b", " ", "+", " ", "c">> }

\* Purely arithmetic expressions with * or /.
MultiplicativeExpressions ==
    { Sp("a", "*", "b"), Sp("b", "*", "a"),
      <<"a", " ", "+", " ", "b", " ", "*", " ", "c">>,
      <<"(", "a", " ", "+", " ", "b", ")", " ", "*", " ", "c">>,
      <<"a", " ", "*", " ", "b", " ", "-", " ", "c">>,
      <<"a", " ", "-", " ", "b", " ", "/", " ", "c">>,
      <<"a", " ", "/", " ", "b", " ", "/", " ", "c">>,
      <<"a", " ", "/", " ", "(", "b", " ", "*", " ", "c", ")">>,
      <<"a", " ", "/", " ", "b", " ", "*", " ", "c">> }

\* Supplied values that are exact as doubles, as are their sums.
ExactValues == {IntV(0), IntV(2), IntV(3), Num(1, 2)}

\* field_values with a, b and c all supplied with exact values
ExactFieldValues == [{"a", "b", "c"} -> ExactValues]

\* field_values where a is the double 2.0**53, whose neighbours are 2 apart
BigFieldValues ==
    {[k \in {"a", "b", "c"} |-> IF k = "a" THEN Big(0) ELSE f[k]] :
        f \in [{"b", "c"} -> {IntV(1), IntV(2), IntV(3)}]}

ArithSnapshot(fv) == [field_values |-> fv, items |-> NoItems, refs |-> NoRefs]

\* Sums and differences are computed for every supplied double; products and
\* quotients for the exact values.
ArithCalls ==
    {[expression |-> e, snapshot |-> ArithSnapshot(fv)] :
        e \in AdditiveExpressions \cup MultiplicativeExpressions, fv \in ExactFieldValues}
    \cup
    {[expression |-> e, snapshot |-> ArithSnapshot(fv)] :
        e \in AdditiveExpressions, fv \in BigFieldValues}

InitArith ==
    /\ call \in ArithCalls
    /\ outcome = Pending
    /\ InitEntry

SpecArith == InitArith /\ [][NextEval]_vars

(***************************************************************************)
(* The namespace of one evaluation: evaluate_formula and _make_evaluator   *)
(* on snapshots whose scalar keys coincide with list keys, sub-keys and    *)
(* operator tokens.                                                        *)
(***************************************************************************)
\* f(x, y) and f(w, x, y, op, v) as texts
Call2(f, x, y) == <<f, "(", x, ",", " ", y, ")">>

Call4(f, x, y, op, v) == <<f, "(", x, ",", " ", y, ",", " ", op, ",", " ", v, ")">>

Call5(f, w, x, y, op, v) ==
    <<f, "(", w, ",", " ", x, ",", " ", y, ",", " ", op, ",", " ", v, ")">>

\* Group-function calls that name the list and the column by identifier, each
\* with the call that names them by quoted string, and the column.
BareAndQuoted ==
    { [bare |-> Call2(f, "items", "score"), quoted |-> Call2(f, "'items'", "'score'"),
       column |-> "score"] : f \in {"SUM_ITEMS", "AVG_ITEMS", "MAX_ITEMS", "COUNT_ITEMS"} }
    \cup
    { [bare |-> Call2("COUNT_ITEMS", "items", "status"),
       quoted |-> Call2("COUNT_ITEMS", "'items'", "'status'"), column |-> "status"],
      [bare |-> Call2("SUM_ITEMS", "items", "op_eq"),
       quoted |-> Call2("SUM_ITEMS", "'items'", "'op_eq'"), column |-> "op_eq"],
      [bare |-> Call4("COUNT_ITEMS_WHERE", "items", "status", "op_eq", "1"),
       quoted |-> Call4("COUNT_ITEMS_WHERE", "'items'", "'status'", "op_eq", "1"),
       column |-> "status"],
      [bare |-> Call5("SUM_ITEMS_WHERE", "items", "score", "status", "op_gt", "0"),
       quoted |-> Call5("SUM_ITEMS_WHERE", "'items'", "'score'", "'status'", "op_gt", "0"),
       column |-> "score"] }

\* A list or sub-key identifier alone, and combined with + - * /.
TokenIdentifiers == {"items", "score", "status"}

TokenArithmetic ==
    {<<x>> : x \in TokenIdentifiers}
    \cup {<<x, " ", op, " ", "2">> : x \in TokenIdentifiers, op \in {"+", "-", "*", "/"}}
    \cup { <<"1", " ", "+", " ", "items">>, <<"items", " ", "+", " ", "score">>,
           <<"score", " ", "+", " ", "score">>, <<"items", " ", "*", " ", "0">>,
           <<"-", "items">> }

\* Conditional group functions whose operator argument is no operator name:
\* an operator name without the prefix, a quoted token, a number.
BadOperatorCalls ==
    { Call4("COUNT_ITEMS_WHERE", "items", "status", "eq", "1"),
      Call5("SUM_ITEMS_WHERE", "items", "score", "status", "eq", "1"),
      Call5("AVG_ITEMS_WHERE", "items", "score", "status", "neq", "1"),
      Call5("MIN_ITEMS_WHERE", "items", "score", "status", "'op_eq'", "1"),
      Call5("MAX_ITEMS_WHERE", "items", "score", "status", "0", "1") }

NameExpressions ==
    {p.bare : p \in BareAndQuoted} \cup {p.quoted : p \in BareAndQuoted}
        \cup TokenArithmetic \cup BadOperatorCalls

\* Scalar keys: a plain key, the key of a sub-key, of the list field and of
\* an operator token; each absent, None or a number.
CollidingFieldValues == Dicts({"a", "score", "items", "op_eq"}, {None, IntV(5)})

\* A list whose rows have a column named like an operator token.
ItemsOp == [f \in {"items"} |-> << [op_eq |-> IntV(2), score |-> IntV(3)] >>]

NameSnapshots ==
    {[field_values |-> fv, items |-> it, refs |-> NoRefs] :
        fv \in CollidingFieldValues, it \in {NoItems, Items1, ItemsOp}}

\* The names whose binding is observed after the namespace is built.
ProbedNames == OpNames \cup {"items", "score", "status", "a", "x"}

InitNames ==
    /\ \/ \E e \in NameExpressions, sn \in NameSnapshots :
            call = [fn |-> "evaluate_formula", expression |-> e, snapshot |-> sn]
       \/ \E sn \in NameSnapshots :
            call = [fn |-> "_make_evaluator", expression |-> <<>>, snapshot |-> sn]
    /\ outcome = Pending
    /\ InitEntry

\* evaluate_formula on the drawn expression and snapshot
EvaluateNamed ==
    /\ call.fn = "evaluate_formula"
    /\ EvaluateFormula

\* _make_evaluator on the drawn snapshot; the result is s.names[k] for the
\* probed names
BuildNamespace ==
    /\ call.fn = "_make_evaluator"
    /\ outcome = Pending
    /\ outcome' =
          Outcome([k \in ProbedNames |->
                      SafeNames_getitem(
                          make_evaluator(call.snapshot.field_values, call.snapshot.items,
                                         call.snapshot.refs).names, k)],
                  "", TRUE, TRUE)
    /\ UNCHANGED <<call, kpiVars, runVars, countVars, entryVars, tableVars>>

NextNames == EvaluateNamed \/ BuildNamespace

SpecNames == InitNames /\ [][NextNames]_vars

(***************************************************************************)
(* The function library as functions of their inputs: one call of a        *)
(* registered function on resolved arguments, of _to_num on a cell, or of  *)
(* _load_other_kpi_values for an entry.                                    *)
(***************************************************************************)
\* The rows a list field with the columns score and status can hold: numbers,
\* text, numeric text, booleans, nulls, and rows that lack a column.
RowChoices ==
    { [score |-> IntV(10), status |-> IntV(1)],
      [score |-> Str("x"), status |-> IntV(0)],
      [score |-> IntV(5)],
      [score |-> Str(" 7 "), status |-> Str("1")],
      [score |-> Bool(TRUE), status |-> Bool(TRUE)],
      [score |-> None, status |-> None],
      [status |-> IntV(2)] }

\* multi_line_items_data: the list field absent, or present with 0..MaxRows rows
ItemsChoices ==
    {NoItems} \cup {[f \in {"items"} |-> rows] : rows \in SeqsUpTo(RowChoices, MaxRows)}

GroupFunctions == {"SUM_ITEMS", "AVG_ITEMS", "MIN_ITEMS", "MAX_ITEMS"}

WhereFunctions ==
    {"SUM_ITEMS_WHERE", "AVG_ITEMS_WHERE", "MIN_ITEMS_WHERE", "MAX_ITEMS_WHERE"}

ScalarFunctions == {"SUM", "AVG", "MIN", "MAX"}

Operators == {"eq", "neq", "gt", "gte", "lt", "lte"}

CompareValues == {IntV(0), IntV(1)}

\* The values a cell is coerced from: numbers, numeric and other text, a
\* date (an ISO text), booleans, null, a structured value.
CoercionInputs ==
    {IntV(0), IntV(5), Num(15, 2), Str("5"), Str(" 7 "), Str("x"), Str(""),
     Str("2024-01-31"), Bool(TRUE), Bool(FALSE), None, Struct}

\* The resolved arguments of a scalar function: numbers, text, null.
ArgValues == {IntV(2), IntV(3), Str("x"), None}

LibCall(fn, args, items, refs) == [fn |-> fn, args |-> args, items |-> items, refs |-> refs]

\* The calls are drawn one kind at a time: call is one of the calls of the kind.
GroupCalls ==
    \E fn \in GroupFunctions, it \in ItemsChoices :
        call = LibCall(fn, <<Str("items"), Str("score")>>, it, NoRefs)

CountCalls ==
    \E a \in {<<Str("items")>>, <<Str("items"), Str("score")>>,
              <<Str("items"), Str("status")>>},
       it \in ItemsChoices :
        call = LibCall("COUNT_ITEMS", a, it, NoRefs)

WhereCalls ==
    \/ \E fn \in WhereFunctions, op \in Operators, c \in CompareValues, it \in ItemsChoices :
        call = LibCall(fn, <<Str("items"), Str("score"), Str("status"), Str(op), c>>,
                       it, NoRefs)
    \/ \E op \in Operators, c \in CompareValues, it \in ItemsChoices :
        call = LibCall("COUNT_ITEMS_WHERE", <<Str("items"), Str("status"), Str(op), c>>,
                       it, NoRefs)

ScalarCalls ==
    \E fn \in ScalarFunctions, a \in SeqsUpTo(ArgValues, MaxArgs) :
        call = LibCall(fn, a, NoItems, NoRefs)

KpiFieldCalls ==
    \E k \in {IntV(42), IntV(3), Str("42")},
       key \in {Str("revenue"), Str("a"), IntV(0)},
       refs \in {NoRefs, Refs1} :
        call = LibCall("KPI_FIELD", <<k, key>>, NoItems, refs)

ToNumCalls == \E x \in CoercionInputs : call = LibCall("_to_num", <<x>>, NoItems, NoRefs)

\* year, org_id, exclude_kpi_id
LoadCalls ==
    \E year \in {2023, 2024}, org \in {1, 2}, kpi \in {3, 7, 42} :
        call = LibCall("_load_other_kpi_values", <<IntV(year), IntV(org), IntV(kpi)>>,
                       NoItems, NoRefs)

LibCalls ==
    GroupCalls \/ CountCalls \/ WhereCalls \/ ScalarCalls \/ KpiFieldCalls
        \/ ToNumCalls \/ LoadCalls

\* what the caller of a function sees: the returned value, or the exception
FunctionResult(v) ==
    IF IsExc(v) THEN Outcome(None, v.s, TRUE, TRUE) ELSE Outcome(v, "", TRUE, TRUE)

InitLib ==
    /\ LibCalls
    /\ outcome = Pending
    /\ InitEntry

\* s.functions[fn](*args) in an evaluator over the call's lists and references
CallFunction ==
    /\ outcome.raised = "pending"
    /\ call.fn \in FunctionNames
    /\ outcome' = FunctionResult(
            Apply(make_evaluator(NoNames, call.items, call.refs), call.fn, call.args))
    /\ UNCHANGED <<call, kpiVars, runVars, countVars, entryVars, tableVars>>

\* _to_num(x); result None is "not numeric"
CallToNum ==
    /\ outcome.raised = "pending"
    /\ call.fn = "_to_num"
    /\ outcome' = FunctionResult(to_num(call.args[1]))
    /\ UNCHANGED <<call, kpiVars, runVars, countVars, entryVars, tableVars>>

\* _load_other_kpi_values(db, year, org_id, exclude_kpi_id); the result is the snapshot
CallLoad ==
    /\ outcome.raised = "pending"
    /\ call.fn = "_load_other_kpi_values"
    /\ outcome' = Outcome(load_other_kpi_values(call.args[1].n, call.args[2].n,
                                                call.args[3].n),
                          "", TRUE, TRUE)
    /\ UNCHANGED <<call, kpiVars, runVars, countVars, entryVars, tableVars>>

NextLib == CallFunction \/ CallToNum \/ CallLoad

SpecLib == InitLib /\ [][NextLib]_vars

(***************************************************************************)
(* save_entry_values, as called by create_or_update_entry.                 *)
(***************************************************************************)
\* The first two loops: the request's values are written to the session and
\* the numbers and lists of the run are collected.
ValuesLoop(r) ==
    LET written ==
            [i \in FieldIds |->
                IF i \in DOMAIN r.number THEN FieldValue(r.number[i], JsonNone)
                ELSE IF i \in DOMAIN r.json THEN FieldValue(None, r.json[i])
                ELSE db[i]]
        numbered == {i \in DOMAIN r.number : r.number[i].k # "none"}
        listed == {i \in FieldIdsOfType("multi_line_items") : written[i].value_json.is_list}
    IN  [session |-> written,
         value_by_key |->
            [k \in {fields[i].key : i \in numbered} |->
                r.number[CHOOSE i \in numbered : fields[i].key = k]],
         multi_line_items_data |->
            [k \in {fields[i].key : i \in listed} |->
                written[CHOOSE i \in listed : fields[i].key = k].value_json.rows]]

\* save_entry_values up to the formula loop; None for a locked entry.
SaveStart(r, user_id, op) ==
    /\ pc = "idle"
    /\ saves < MaxSaves
    /\ saves' = saves + 1
    /\ now' = now + 1
    /\ req' = Request(r, user_id, op)
    /\ IF is_locked
       THEN /\ pc' = "refused"
            /\ UNCHANGED <<session, value_by_key, multi_line_items_data,
                           other_kpi_values, idx>>
       ELSE LET w == ValuesLoop(r)
            IN  /\ pc' = "formulas"
                /\ session' = w.session
                /\ value_by_key' = w.value_by_key
                /\ multi_line_items_data' = w.multi_line_items_data
                /\ other_kpi_values' = load_other_kpi_values(Entry.year, Entry.organization_id,
                                                             Entry.kpi_id)
                /\ idx' = 1
    /\ UNCHANGED <<tableVars, evalVars, kpiVars, updates, entry>>

\* the formula loop skips the field
Skipped(f) == f.field_type # "formula" \/ f.formula_expression = <<>>

\* value_by_key[f.key] = computed
Bind(names, key, computed) == [k \in DOMAIN names \cup {key} |->
                                  IF k = key THEN computed ELSE names[k]]

\* the formula loop without the binding of the result
NoBind(names, key, computed) == names

\* if computed is not None: value_by_key[f.key] = computed
BindResult(names, key, computed) ==
    IF computed.k = "none" THEN names ELSE Bind(names, key, computed)

\* One iteration of the formula loop, for kpi.fields[idx].
FormulaStep ==
    /\ pc = "formulas"
    /\ idx <= Len(fields)
    /\ LET f == fields[idx]
           o == evaluate_formula(f.formula_expression, value_by_key,
                                 multi_line_items_data, other_kpi_values)
           after == ArgumentsAfter(f.formula_expression, value_by_key,
                                   multi_line_items_data, other_kpi_values)
       IN  IF Skipped(f)
           THEN /\ idx' = idx + 1
                /\ UNCHANGED <<pc, session, value_by_key, multi_line_items_data,
                               other_kpi_values>>
           ELSE /\ multi_line_items_data' = after.items
                /\ other_kpi_values' = after.refs
                /\ IF o.raised # ""
                   THEN /\ pc' = "raised"
                        /\ value_by_key' = after.field_values
                        /\ UNCHANGED <<idx, session>>
                   ELSE /\ session' = [session EXCEPT ![idx].value_number = o.result]
                        /\ value_by_key' = BindResult(after.field_values, f.key, o.result)
                        /\ idx' = idx + 1
                        /\ pc' = pc
    /\ UNCHANGED <<tableVars, evalVars, kpiVars, req, countVars, entryVars>>

\* a save that takes is_draft from the request's default
saved_entry_as_draft(e, user_id, t) ==
    [e EXCEPT !.user_id = user_id, !.updated_at = IntV(t), !.is_draft = TRUE]

\* entry.user_id = user_id; entry.updated_at = datetime.utcnow()
saved_entry(e, user_id, t) ==
    [e EXCEPT !.user_id = user_id, !.updated_at = IntV(t)]

\* After the last field the entry gets its user and its time, is flushed and
\* returned, and the route commits.
SaveReturn ==
    /\ pc = "formulas"
    /\ idx > Len(fields)
    /\ pc' = "returned"
    /\ db' = session
    /\ entry' = saved_entry(entry, req.user_id, now)
    /\ UNCHANGED <<tableVars, evalVars, fields, is_locked, req, session, value_by_key,
                   multi_line_items_data, other_kpi_values, idx, countVars, now>>

\* The request ends: its session is closed, what was not committed is lost.
Close ==
    /\ pc \in {"returned", "raised", "refused"}
    /\ pc' = "idle"
    /\ req' = NoRequest
    /\ session' = db
    /\ value_by_key' = NoNames
    /\ multi_line_items_data' = NoItems
    /\ other_kpi_values' = NoRefs
    /\ idx' = 0
    /\ UNCHANGED <<tableVars, evalVars, kpiVars, countVars, entryVars>>

\* update_field: a new formula_expression for a formula field.
UpdateField(i, e) ==
    /\ pc = "idle"
    /\ updates < MaxUpdates
    /\ updates' = updates + 1
    /\ fields[i].formula_expression # e
    /\ fields' = [fields EXCEPT ![i].formula_expression = e]
    /\ UNCHANGED <<tableVars, evalVars, db, is_locked, runVars, saves, entryVars>>

\* lock_entry; the row's update sets updated_at (onupdate=utc_now)
LockEntry(locked) ==
    /\ pc = "idle"
    /\ is_locked # locked
    /\ is_locked' = locked
    /\ entry' = [entry EXCEPT !.updated_at = IntV(now)]
    /\ UNCHANGED <<tableVars, evalVars, fields, db, runVars, countVars, now>>

Init ==
    /\ call = NoCall
    /\ outcome = Pending
    /\ InitEntry

Next ==
    \/ \E r \in Requests : SaveStart(r, Entry.user_id, "save")
    \/ FormulaStep
    \/ SaveReturn
    \/ Close
    \/ \E i \in FieldIdsOfType("formula") : \E e \in FieldExpressions(i) : UpdateField(i, e)
    \/ \E locked \in BOOLEAN : LockEntry(locked)

Spec == Init /\ [][Next]_vars

(***************************************************************************)
(* The requests on one entry: save, submit, row upload, API sync and lock, *)
(* by two users, on a KPI whose second formula aggregates the list field.  *)
(***************************************************************************)
\* Number of submit, upload and value-less sync requests.
MaxRequests == 2

Users == {1, 2}

Fields1 ==
    [Fields0 EXCEPT ![5].formula_expression = <<"SUM_ITEMS", "(", "items", ",", "score", ")">>]

\* The values of the save requests: MaxVal for all number fields or for none,
\* with rows or without.
EntryRequests ==
    {r \in Requests : /\ \A i \in DOMAIN r.number : r.number[i] = IntV(MaxVal)
                      /\ DOMAIN r.number \in {{}, FieldIdsOfType("number")}}

\* The rows _parse_multi_items_xlsx reads from an uploaded file.
UploadedRows == { <<>>, <<[score |-> IntV(2), status |-> IntV(1)]>> }

\* submit_entry without its test of entry.is_locked
submit_entry_unlocked(e, locked, user_id, t) ==
    [e EXCEPT !.is_draft = FALSE, !.submitted_at = IntV(t),
              !.user_id = user_id, !.updated_at = IntV(t)]

\* submit_entry: the entry row after the call; unchanged (None is returned)
\* for a locked entry
submit_entry(e, locked, user_id, t) ==
    IF locked THEN e
    ELSE [e EXCEPT !.is_draft = FALSE, !.submitted_at = IntV(t),
                   !.user_id = user_id, !.updated_at = IntV(t)]

\* submit_entry_route
SubmitEntry(user_id) ==
    /\ pc = "idle"
    /\ now < MaxRequests
    /\ now' = now + 1
    /\ req' = Request(NoRequest, user_id, "submit")
    /\ pc' = IF is_locked THEN "refused" ELSE "returned"
    /\ entry' = submit_entry(entry, is_locked, user_id, now')
    /\ UNCHANGED <<tableVars, evalVars, kpiVars, session, value_by_key, multi_line_items_data,
                   other_kpi_values, idx, countVars>>

\* an upload that also resets the stored results of the formula fields
value_json_after_upload_reset(stored, items, append) ==
    [i \in FieldIds |->
        IF fields[i].field_type = "multi_line_items"
        THEN [stored[i] EXCEPT !.value_json =
                 IF append /\ stored[i].value_json.is_list
                 THEN JsonList(stored[i].value_json.rows \o items)
                 ELSE JsonList(items)]
        ELSE IF fields[i].field_type = "formula"
        THEN [stored[i] EXCEPT !.value_number = None]
        ELSE stored[i]]

\* upload_multi_items_excel: the stored values after the upload; the rows of
\* the list field are replaced or extended, nothing else is written
value_json_after_upload(stored, items, append) ==
    [i \in FieldIds |->
        IF fields[i].field_type = "multi_line_items"
        THEN [stored[i] EXCEPT !.value_json =
                 IF append /\ stored[i].value_json.is_list
                 THEN JsonList(stored[i].value_json.rows \o items)
                 ELSE JsonList(items)]
        ELSE stored[i]]

\* upload_multi_items_excel: refused for a locked entry; else the rows are
\* stored, the entry gets its user (and by that update its time), commit.
UploadMultiItemsExcel(user_id, items, append) ==
    /\ pc = "idle"
    /\ now < MaxRequests
    /\ now' = now + 1
    /\ req' = Request(NoRequest, user_id, "upload")
    /\ IF is_locked
       THEN /\ pc' = "refused"
            /\ UNCHANGED <<db, session, entry>>
       ELSE /\ pc' = "returned"
            /\ db' = value_json_after_upload(db, items, append)
            /\ session' = db'
            /\ entry' = [entry EXCEPT !.user_id = user_id,
                                      !.updated_at = IF user_id # entry.user_id
                                                     THEN IntV(now') ELSE @]
    /\ UNCHANGED <<tableVars, evalVars, fields, is_locked, value_by_key, multi_line_items_data,
                   other_kpi_values, idx, countVars>>

\* The values of an API response: numbers and rows for some of the fields.
ApiValues == {r \in EntryRequests : DOMAIN r.number = {}}

\* sync_kpi_entry_from_api: value_inputs; in append mode the API's rows
\* follow the stored rows.
ValueInputs(api, sync_mode) ==
    [number |-> api.number,
     json |-> [i \in DOMAIN api.json |->
                  IF sync_mode = "append"
                  THEN JsonList((IF db[i].value_json.is_list THEN db[i].value_json.rows
                                 ELSE <<>>) \o api.json[i].rows)
                  ELSE api.json[i]]]

\* entry_sync_from_api with force_override: the API's values are saved by
\* save_entry_values; without values nothing is saved.
SyncFromApi(user_id, api, sync_mode) ==
    LET value_inputs == ValueInputs(api, sync_mode)
    IN  \/ /\ DOMAIN value_inputs.number \cup DOMAIN value_inputs.json # {}
           /\ SaveStart(value_inputs, user_id, "sync")
        \/ /\ DOMAIN value_inputs.number \cup DOMAIN value_inputs.json = {}
           /\ pc = "idle"
           /\ now < MaxRequests
           /\ now' = now + 1
           /\ req' = Request(value_inputs, user_id, "sync")
           /\ pc' = "returned"
           /\ UNCHANGED <<tableVars, evalVars, kpiVars, session, value_by_key, multi_line_items_data,
                          other_kpi_values, idx, countVars, entry>>

InitRequests ==
    /\ call = NoCall
    /\ outcome = Pending
    /\ fields = Fields1
    /\ db = [i \in FieldIds |-> NoValue]
    /\ is_locked = FALSE
    /\ pc = "idle"
    /\ req = NoRequest
    /\ session = [i \in FieldIds |-> NoValue]
    /\ value_by_key = NoNames
    /\ multi_line_items_data = NoItems
    /\ other_kpi_values = NoRefs
    /\ idx = 0
    /\ saves = 0
    /\ updates = 0
    /\ entry = KPIEntry(Entry.user_id)
    /\ now = 0
    /\ kpi_entries = {EntryRow(0, Entry, TRUE)}
    /\ calls = [p \in Callers |-> NotCalled]

NextRequests ==
    \/ \E r \in EntryRequests : \E u \in Users : SaveStart(r, u, "save")
    \/ FormulaStep
    \/ SaveReturn
    \/ Close
    \/ \E u \in Users : SubmitEntry(u)
    \/ \E u \in Users : \E items \in UploadedRows : \E append \in BOOLEAN :
           UploadMultiItemsExcel(u, items, append)
    \/ \E u \in Users : \E api \in ApiValues : \E sync_mode \in {"override", "append"} :
           SyncFromApi(u, api, sync_mode)
    \/ \E locked \in BOOLEAN : LockEntry(locked)

SpecRequests == InitRequests /\ [][NextRequests]_vars

(***************************************************************************)
(* get_or_create_entry called by concurrent requests, each in its own      *)
(* transaction (READ COMMITTED): a select sees the committed rows, an      *)
(* insert waits for a pending row of the same key and fails on a committed *)
(* one.                                                                    *)
(***************************************************************************)
\* A request arrives and calls get_or_create_entry.
StartCall(p, a) ==
    /\ calls[p].pc = "idle"
    /\ calls' = [calls EXCEPT ![p] = [pc |-> "select", args |-> a,
                                      entry |-> FALSE, created |-> FALSE]]
    /\ UNCHANGED <<kpi_entries, evalVars, kpiVars, runVars, countVars, entryVars>>

\* the committed rows of the key, as the select of a transaction sees them
SelectedRows(rows, a) == {r \in rows : r.committed /\ OfKey(r, a)}

\* select(KPIEntry).where(organization_id, kpi_id, year); if entry: return entry, False
SelectEntry(p) ==
    /\ calls[p].pc = "select"
    /\ calls' = [calls EXCEPT ![p] =
                    IF SelectedRows(kpi_entries, calls[p].args) # {}
                    THEN [@ EXCEPT !.pc = "returned", !.entry = TRUE]
                    ELSE [@ EXCEPT !.pc = "resolve"]]
    /\ UNCHANGED <<kpi_entries, evalVars, kpiVars, runVars, countVars, entryVars>>

\* kpi_org = _resolve_org_and_kpi(kpi_id); if kpi_org != org_id: return None, False
ResolveOrg(p) ==
    /\ calls[p].pc = "resolve"
    /\ calls' = [calls EXCEPT ![p].pc =
                    IF resolve_org_and_kpi(calls[p].args.kpi_id) # calls[p].args.organization_id
                    THEN "returned" ELSE "insert"]
    /\ UNCHANGED <<kpi_entries, evalVars, kpiVars, runVars, countVars, entryVars>>

\* db.add(entry); db.flush(): the insert waits while another transaction
\* holds a pending row of the key and raises IntegrityError on a committed one.
InsertEntry(p) ==
    /\ calls[p].pc = "insert"
    /\ LET conflicts == Conflicting(kpi_entries, calls[p].args)
       IN  /\ \A r \in conflicts : r.committed
           /\ IF conflicts # {}
              THEN /\ calls' = [calls EXCEPT ![p].pc = "raised"]
                   /\ UNCHANGED kpi_entries
              ELSE /\ kpi_entries' = kpi_entries \cup {EntryRow(p, calls[p].args, FALSE)}
                   /\ calls' = [calls EXCEPT ![p].pc = "returned", ![p].entry = TRUE,
                                             ![p].created = TRUE]
    /\ UNCHANGED <<evalVars, kpiVars, runVars, countVars, entryVars>>

\* The route commits: db.commit().
CommitCall(p) ==
    /\ calls[p].pc = "returned"
    /\ calls' = [calls EXCEPT ![p].pc = "committed"]
    /\ kpi_entries' = {IF r.tx = p THEN [r EXCEPT !.committed = TRUE] ELSE r : r \in kpi_entries}
    /\ UNCHANGED <<evalVars, kpiVars, runVars, countVars, entryVars>>

\* The request fails after the call or with its IntegrityError: the session
\* is closed without a commit and its pending row is gone.
RollbackCall(p) ==
    /\ calls[p].pc \in {"returned", "raised"}
    /\ calls' = [calls EXCEPT ![p].pc = "rolled back"]
    /\ kpi_entries' = {r \in kpi_entries : r.tx # p \/ r.committed}
    /\ UNCHANGED <<evalVars, kpiVars, runVars, countVars, entryVars>>

InitCreate ==
    /\ call = NoCall
    /\ outcome = Pending
    /\ fields = Fields0
    /\ db = [i \in FieldIds |-> NoValue]
    /\ is_locked = FALSE
    /\ pc = "idle"
    /\ req = NoRequest
    /\ session = [i \in FieldIds |-> NoValue]
    /\ value_by_key = NoNames
    /\ multi_line_items_data = NoItems
    /\ other_kpi_values = NoRefs
    /\ idx = 0
    /\ saves = 0
    /\ updates = 0
    /\ entry = KPIEntry(Entry.user_id)
    /\ now = 0
    /\ kpi_entries = {}
    /\ calls = [p \in Callers |-> NotCalled]

NextCreate ==
    \/ \E p \in Callers : \E a \in CallArgs : StartCall(p, a)
    \/ \E p \in Callers : SelectEntry(p)
    \/ \E p \in Callers : ResolveOrg(p)
    \/ \E p \in Callers : InsertEntry(p)
    \/ \E p \in Callers : CommitCall(p)
    \/ \E p \in Callers : RollbackCall(p)

SpecCreate == InitCreate /\ [][NextCreate]_vars

(***************************************************************************)
(* Properties of evaluate_formula (specification SpecEval).                *)
(***************************************************************************)
Returned == outcome # Pending

CallTokens == Tokens(strip(call.expression))

CallEvaluator ==
    make_evaluator(call.snapshot.field_values, call.snapshot.items, call.snapshot.refs)

Uncomputable(o) == o.result = None /\ o.raised = ""

\* C1: evaluate_formula never raises; every call returns a number or None,
\* also for expressions that pass the guard and are not well-formed or use an
\* operation the interpreter does not support.
C1_NeverRaises ==
    Returned => /\ outcome.raised = ""
                /\ outcome.result.k \in {"num", "none"}

\* C3: an expression with a character outside the allow-list yields
\* uncomputable, whatever the rest of it is, and no evaluator is constructed
\* for it.
HasDisallowed(e) == \E i \in 1..Len(e) : e[i] \in DisallowedLexemes

C3_GuardRejectsBeforeEvaluator ==
    (Returned /\ HasDisallowed(call.expression))
        => /\ Uncomputable(outcome)
           /\ ~outcome.built

\* C3 witness: a well-formed sum followed by a disallowed character was rejected.
C3_Witness ==
    /\ Returned
    /\ call.expression = <<"a", "+", "b", "=", "1">>
    /\ call.snapshot.field_values = [a |-> IntV(1), b |-> IntV(1)]
    /\ Uncomputable(outcome)
    /\ ~outcome.built

\* C4 as claimed: a formula that references an identifier that is not bound in
\* the namespace yields uncomputable and never a number.
UnboundNames == NameLexemes \ DOMAIN CallEvaluator.names

ReferencesUnbound ==
    \E i \in 1..Len(CallTokens) :
        /\ CallTokens[i] \in UnboundNames
        /\ Tok(CallTokens, i + 1) # "("

ZeroFilled == [k \in UnboundNames |-> IntV(0)] @@ call.snapshot.field_values

DividesByZero ==
    /\ call.expression # <<>>
    /\ ~IsBlank(call.expression)
    /\ GuardMatches(strip(call.expression))
    /\ SimpleEval_eval(CallEvaluator, strip(call.expression)) = Exc("ZeroDivisionError")

ZeroOrUnset(key) ==
    \/ key \notin DOMAIN call.snapshot.field_values
    \/ call.snapshot.field_values[key] \in {None, IntV(0)}

C7_DivisionByZeroUncomputable ==
    /\ (Returned /\ DividesByZero) => Uncomputable(outcome)
    /\ (Returned /\ CallTokens = <<"a", "/", "b">> /\ ZeroOrUnset("b"))
            => (DividesByZero /\ Uncomputable(outcome))

\* C7 witness: a / b with a = 1 and b absent returned None.
C7_Witness ==
    /\ Returned
    /\ call.expression = <<"a", " ", "/", " ", "b">>
    /\ call.snapshot.field_values = [a |-> IntV(1)]
    /\ DividesByZero
    /\ Uncomputable(outcome)

\* C8: a call with the wrong number of arguments and a call of a name outside
\* the function registry both yield uncomputable and never raise.
WrongArityCalls ==
    { <<"ROUND", "(", ")">>,
      <<"SUM_ITEMS", "(", "items", ")">>,
      <<"SUM_ITEMS", "(", "items", ",", "score", ",", "1", ")">>,
      <<"COUNT_ITEMS", "(", ")">>,
      <<"KPI_FIELD", "(", "42", ")">> }

UnknownFunctionCalls == { <<"NOFUNC", "(", "a", ")">> }

C8_MalformedCallUncomputable ==
    (Returned /\ call.expression \in WrongArityCalls \cup UnknownFunctionCalls)
        => Uncomputable(outcome)

\* C9: an empty or whitespace-only expression yields uncomputable, the guard
\* pattern is not applied to it and no evaluator is constructed.
Blank(e) == \A i \in 1..Len(e) : e[i] = " "

C9_BlankShortCircuits ==
    (Returned /\ Blank(call.expression))
        => /\ Uncomputable(outcome)
           /\ ~outcome.guard
           /\ ~outcome.built

\* C9 witness: two spaces, with a snapshot that binds a and b.
C9_Witness ==
    /\ Returned
    /\ call.expression = <<" ", " ">>
    /\ call.snapshot.field_values = [a |-> IntV(1), b |-> IntV(1)]
    /\ call.snapshot.items = Items1
    /\ Uncomputable(outcome)
    /\ ~outcome.guard

(***************************************************************************)
(* Properties of a save request (specification Spec).                      *)
(***************************************************************************)
FormulaIds == FieldIdsOfType("formula")

\* the run of save_entry_values has started its formula loop
Running == pc \in {"formulas", "returned", "raised"}

\* the formula loop has evaluated field i and stored its result
Evaluated(i) == Running /\ i < idx /\ ~Skipped(fields[i])

\* the number the request gives for field i, 0 when it gives none
RequestNumber(i) ==
    IF i \in DOMAIN req.number /\ req.number[i].k = "num" THEN req.number[i] ELSE IntV(0)

\* C2: a formula field whose evaluation fails does not stop the run: the run
\* ends by returning the entry, with every value of the request stored and
\* every formula field with an expression evaluated and stored.
C2_FormulaErrorDoesNotStopRun ==
    /\ pc # "raised"
    /\ pc = "returned" =>
          /\ \A i \in DOMAIN req.number : db[i].value_number = req.number[i]
          /\ \A i \in DOMAIN req.json : db[i].value_json = req.json[i]
          /\ \A i \in FormulaIds : ~Skipped(fields[i]) => Evaluated(i)

\* C5: a number field of the entity without a value (not in the request, or
\* null) counts as 0 in a formula: a + b is the sum of the supplied numbers.
SumOfAB == <<"a", " ", "+", " ", "b">>

EarlierResults(i) ==
    {j \in FormulaIds : j < i /\ ~Skipped(fields[j]) /\ session[j].value_number.k = "num"}

ExpectedNames(i) ==
    LET numbered == {n \in DOMAIN req.number : req.number[n].k = "num"}
    IN  [k \in {fields[j].key : j \in numbered \cup EarlierResults(i)} |->
            LET j == CHOOSE j \in numbered \cup EarlierResults(i) : fields[j].key = k
            IN  IF j \in numbered THEN req.number[j] ELSE session[j].value_number]

C6_NamespaceHoldsEarlierResults ==
    Running =>
        /\ value_by_key = ExpectedNames(idx)
        /\ \A i \in FormulaIds :
              Evaluated(i) =>
                  session[i].value_number =
                      evaluate_formula(fields[i].formula_expression, ExpectedNames(i),
                                       multi_line_items_data, other_kpi_values).result

\* C6 witness: f1 = a + b gave MaxVal and the later f2 = f1 * 2 gave 2 * MaxVal.
C6_Witness ==
    /\ pc = "returned"
    /\ fields[3].formula_expression = SumOfAB
    /\ fields[5].formula_expression = <<"f1", "*", "2">>
    /\ session[3].value_number = IntV(MaxVal)
    /\ session[5].value_number = IntV(2 * MaxVal)

\* C10: after a run every formula field whose expression is empty or rejected
\* by the guard has None as its stored result, whatever was stored before.
C10_EmptyOrRejectedRecordsUncomputable ==
    pc = "returned" =>
        \A i \in FormulaIds :
            (Blank(fields[i].formula_expression) \/ HasDisallowed(fields[i].formula_expression))
                => db[i].value_number = None

(***************************************************************************)
(* Properties of the function library (specification SpecLib).             *)
(***************************************************************************)
\* the call has been made
Called == outcome.raised # "pending"

\* the call returned the number v
Gave(v) == outcome.raised = "" /\ outcome.result = v

\* the rows of the call's list field
CallRows == IF "items" \in DOMAIN call.items THEN call.items["items"] ELSE <<>>

\* row[key], None for a missing cell
Cell(row, key) == IF key \in DOMAIN row THEN row[key] ELSE None

\* Numeric Coercion as specified: a number, or text that parses as a number;
\* a boolean, a date, a null and a structured value are not numeric.
Accepted(v) == v.k = "num" \/ (v.k = "str" /\ v.s \in NumericTexts)

Coerced(v) == IF v.k = "num" THEN v ELSE IntV(TextValue(v.s))

\* the coerced cells of the column that Numeric Coercion accepts, in row order
NumericCells(rows, key) ==
    LET kept == SelectSeq(rows, LAMBDA r : Accepted(Cell(r, key)))
    IN  [i \in 1..Len(kept) |-> Coerced(Cell(kept[i], key))]

\* n op c for the six comparators
Compares(n, op, c) ==
    CASE op = "eq" -> n = c
      [] op = "neq" -> n # c
      [] op = "gt" -> NumLt(c, n)
      [] op = "gte" -> NumLe(c, n)
      [] op = "lt" -> NumLt(n, c)
      [] op = "lte" -> NumLe(n, c)

\* the row selection as specified
Selected(row, key, op, c) ==
    IF Accepted(Cell(row, key)) THEN Compares(Coerced(Cell(row, key)), op, c)
    ELSE op = "neq"

\* the reduction each aggregator stands for, 0 for no values
Reduce(fn, vals) ==
    CASE fn \in {"SUM_ITEMS", "SUM_ITEMS_WHERE", "SUM"} -> SumSeq(vals)
      [] fn \in {"AVG_ITEMS", "AVG_ITEMS_WHERE", "AVG"} ->
            IF vals = <<>> THEN IntV(0) ELSE NumDiv(SumSeq(vals), IntV(Len(vals)))
      [] fn \in {"MIN_ITEMS", "MIN_ITEMS_WHERE", "MIN"} ->
            IF vals = <<>> THEN IntV(0) ELSE MinSeq(vals)
      [] fn \in {"MAX_ITEMS", "MAX_ITEMS_WHERE", "MAX"} ->
            IF vals = <<>> THEN IntV(0) ELSE MaxSeq(vals)

\* the arguments of a *_ITEMS_WHERE call: filter column, operator, compare value
FilterKey == IF call.fn = "COUNT_ITEMS_WHERE" THEN call.args[2].s ELSE call.args[3].s

FilterOp == IF call.fn = "COUNT_ITEMS_WHERE" THEN call.args[3].s ELSE call.args[4].s

FilterValue == IF call.fn = "COUNT_ITEMS_WHERE" THEN call.args[4] ELSE call.args[5]

\* C11: a group aggregator over a list that is absent, empty or without a
\* numeric cell in the column returns 0, and so does a *_ITEMS_WHERE
\* aggregator when no row is selected.
C11_ZeroWithoutNumericCell ==
    /\ (Called /\ call.fn \in GroupFunctions
            /\ NumericCells(CallRows, call.args[2].s) = <<>>)
        => Gave(IntV(0))
    /\ (Called /\ call.fn \in WhereFunctions
            /\ \A i \in 1..Len(CallRows) :
                  ~Selected(CallRows[i], FilterKey, FilterOp, FilterValue))
        => Gave(IntV(0))

\* C12: SUM_ITEMS, AVG_ITEMS, MIN_ITEMS and MAX_ITEMS are the sum, the mean,
\* the smallest and the largest of exactly the cells of the column that
\* Numeric Coercion accepts.
C12_ReducesAcceptedCells ==
    (Called /\ call.fn \in GroupFunctions)
        => Gave(Reduce(call.fn, NumericCells(CallRows, call.args[2].s)))

\* C13: COUNT_ITEMS(field) is the number of rows and COUNT_ITEMS(field,
\* sub_key) the number of rows with a non-null value at sub_key.
C13_CountItems ==
    (Called /\ call.fn = "COUNT_ITEMS")
        => Gave(IntV(IF Len(call.args) = 1 THEN Len(CallRows)
                     ELSE Cardinality({i \in 1..Len(CallRows) :
                                          Cell(CallRows[i], call.args[2].s) # None})))

\* C13 witness: of three rows, the one with a text cell and the one with a
\* number were counted and the one without the cell was not.
C13_Witness ==
    /\ Called
    /\ call.fn = "COUNT_ITEMS"
    /\ call.args = <<Str("items"), Str("score")>>
    /\ CallRows = << [score |-> Str("x"), status |-> IntV(0)], [status |-> IntV(2)],
                     [score |-> IntV(5)] >>
    /\ Gave(IntV(2))

\* C14: COUNT_ITEMS_WHERE counts, and the other *_ITEMS_WHERE functions
\* reduce, exactly the rows the specified selection selects: a row whose
\* filter cell is not numeric only for neq, a row with a numeric filter cell
\* when the comparison holds.
C14_RowSelection ==
    /\ (Called /\ call.fn = "COUNT_ITEMS_WHERE")
        => Gave(IntV(Cardinality({i \in 1..Len(CallRows) :
                        Selected(CallRows[i], FilterKey, FilterOp, FilterValue)})))
    /\ (Called /\ call.fn \in WhereFunctions)
        => Gave(Reduce(call.fn,
                       MapToNum(SelectSeq(CallRows, LAMBDA r :
                                    Selected(r, FilterKey, FilterOp, FilterValue)),
                                call.args[2])))

\* the list restricted to the rows the predicate of the call selects
RestrictedItems ==
    [f \in {"items"} |->
        SelectSeq(CallRows, LAMBDA r :
            row_matches(r, Str(FilterKey), Str(FilterOp), FilterValue) = Bool(TRUE))]

\* the unconditional aggregator a *_ITEMS_WHERE function corresponds to
Unconditional(fn) ==
    CASE fn = "SUM_ITEMS_WHERE" -> "SUM_ITEMS"
      [] fn = "AVG_ITEMS_WHERE" -> "AVG_ITEMS"
      [] fn = "MIN_ITEMS_WHERE" -> "MIN_ITEMS"
      [] fn = "MAX_ITEMS_WHERE" -> "MAX_ITEMS"
      [] fn = "COUNT_ITEMS_WHERE" -> "COUNT_ITEMS"

\* C15: a *_ITEMS_WHERE function gives what the unconditional aggregator
\* gives on the list restricted to the selected rows; COUNT_ITEMS_WHERE gives
\* the number of selected rows.
C15_WhereIsAggregatorOnSelectedRows ==
    (Called /\ call.fn \in WhereFunctions \cup {"COUNT_ITEMS_WHERE"})
        => Gave(Apply(make_evaluator(NoNames, RestrictedItems, NoRefs),
                      Unconditional(call.fn),
                      IF call.fn = "COUNT_ITEMS_WHERE" THEN <<call.args[1]>>
                      ELSE <<call.args[1], call.args[2]>>))

\* C15 witness: statuses 1, 0, 1 with op_eq 1 were counted as 2.
C15_Witness ==
    /\ Called
    /\ CallRows = << [score |-> IntV(10), status |-> IntV(1)],
                     [score |-> Str("x"), status |-> IntV(0)],
                     [score |-> IntV(10), status |-> IntV(1)] >>
    /\ call.fn = "COUNT_ITEMS_WHERE"
    /\ call.args = <<Str("items"), Str("status"), Str("eq"), IntV(1)>>
    /\ Gave(IntV(2))

\* the pair of a KPI_FIELD call, when its arguments are an integer and a text
CallPair == <<call.args[1].n, call.args[2].s>>

PairPresent ==
    /\ call.args[1].k = "num" /\ call.args[1].h = 0 /\ call.args[1].d = 1
    /\ call.args[2].k = "str"
    /\ CallPair \in DOMAIN call.refs

\* C16: KPI_FIELD returns the snapshot's number for a pair that is present
\* and 0 for every other pair, also with an empty snapshot; it never raises.
C16_KpiFieldIsTotal ==
    (Called /\ call.fn = "KPI_FIELD")
        => Gave(IF PairPresent THEN call.refs[CallPair] ELSE IntV(0))

\* C16 witness: a miss in an empty snapshot gave 0.
C16_Witness ==
    /\ Called
    /\ call.fn = "KPI_FIELD"
    /\ call.refs = NoRefs
    /\ call.args = <<IntV(42), Str("revenue")>>
    /\ Gave(IntV(0))

\* the field keys of the stored values
StoredKeys == {v.key : v \in StoredValues}

\* C17: the snapshot loaded for KPI k of organization o in year y has only
\* keys of other KPIs, each with the non-null number of a number or formula
\* field of an entry of o and y; KPI_FIELD(k, key) on it is 0 for every key.
C17_SnapshotOfOtherKpisOnly ==
    (Called /\ call.fn = "_load_other_kpi_values") =>
        LET year == call.args[1].n
            org == call.args[2].n
            kpi == call.args[3].n
            snapshot == outcome.result
        IN  /\ \A p \in DOMAIN snapshot :
                  /\ p[1] # kpi
                  /\ \E v \in StoredValues :
                        /\ v.organization_id = org /\ v.year = year
                        /\ v.kpi_id = p[1] /\ v.key = p[2]
                        /\ v.field_type \in {"number", "formula"}
                        /\ v.value_number # None
                        /\ snapshot[p] = v.value_number
            /\ \A key \in StoredKeys :
                  kpi_field(snapshot, <<IntV(kpi), Str(key)>>) = IntV(0)

\* C17 witness: the snapshot for KPI 7 of organization 1 in 2024, where the
\* KPI has a stored value of its own and other years and organizations have
\* values under the same keys.
C17_Witness ==
    /\ Called
    /\ call.fn = "_load_other_kpi_values"
    /\ call.args = <<IntV(2024), IntV(1), IntV(7)>>
    /\ DOMAIN outcome.result = {<<42, "revenue">>, <<3, "total">>}
    /\ outcome.result[<<42, "revenue">>] = IntV(250000)

\* C18: Numeric Coercion returns a number unchanged and the number of a
\* numeric text, and finds a boolean, a date, a null and a structured value
\* not numeric.
C18_NumericCoercion ==
    (Called /\ call.fn = "_to_num")
        => Gave(IF Accepted(call.args[1]) THEN Coerced(call.args[1]) ELSE None)

\* the arguments of the call that are numbers
NumericArgs == SelectSeq(call.args, LAMBDA x : x.k = "num")

Meaning(e) ==
    CASE e = Sp("a", "+", "b") -> <<"+", <<"a">>, <<"b">>>>
      [] e = Sp("b", "+", "a") -> <<"+", <<"b">>, <<"a">>>>
      [] e = Sp("a", "*", "b") -> <<"*", <<"a">>, <<"b">>>>
      [] e = Sp("b", "*", "a") -> <<"*", <<"b">>, <<"a">>>>
      [] e = <<"(", "a", " ", "+", " ", "b", ")", " ", "+", " ", "c">> ->
            <<"+", <<"+", <<"a">>, <<"b">>>>, <<"c">>>>
      [] e = <<"a", " ", "+", " ", "(", "b", " ", "+", " ", "c", ")">> ->
            <<"+", <<"a">>, <<"+", <<"b">>, <<"c">>>>>>
      [] e = <<"a", " ", "+", " ", "b", " ", "+", " ", "c">> ->
            <<"+", <<"+", <<"a">>, <<"b">>>>, <<"c">>>>
      [] e = <<"a", " ", "-", " ", "b", " ", "-", " ", "c">> ->
            <<"-", <<"-", <<"a">>, <<"b">>>>, <<"c">>>>
      [] e = <<"a", " ", "-", " ", "(", "b", " ", "-", " ", "c", ")">> ->
            <<"-", <<"a">>, <<"-", <<"b">>, <<"c">>>>>>
      [] e = <<"a", " ", "-", " ", "b", " ", "+", " ", "c">> ->
            <<"+", <<"-", <<"a">>, <<"b">>>>, <<"c">>>>
      [] e = <<"a", " ", "+", " ", "b", " ", "*", " ", "c">> ->
            <<"+", <<"a">>, <<"*", <<"b">>, <<"c">>>>>>
      [] e = <<"(", "a", " ", "+", " ", "b", ")", " ", "*", " ", "c">> ->
            <<"*", <<"+", <<"a">>, <<"b">>>>, <<"c">>>>
      [] e = <<"a", " ", "*", " ", "b", " ", "-", " ", "c">> ->
            <<"-", <<"*", <<"a">>, <<"b">>>>, <<"c">>>>
      [] e = <<"a", " ", "-", " ", "b", " ", "/", " ", "c">> ->
            <<"-", <<"a">>, <<"/", <<"b">>, <<"c">>>>>>
      [] e = <<"a", " ", "/", " ", "b", " ", "/", " ", "c">> ->
            <<"/", <<"/", <<"a">>, <<"b">>>>, <<"c">>>>
      [] e = <<"a", " ", "/", " ", "(", "b", " ", "*", " ", "c", ")">> ->
            <<"/", <<"a">>, <<"*", <<"b">>, <<"c">>>>>>
      [] e = <<"a", " ", "/", " ", "b", " ", "*", " ", "c">> ->
            <<"*", <<"/", <<"a">>, <<"b">>>>, <<"c">>>>

Undefined == Exc("undefined")

RECURSIVE Direct(_, _)
\* the arithmetic of the tree on the supplied values; a division by zero
\* leaves it undefined
Direct(tree, fv) ==
    IF Len(tree) = 1 THEN fv[tree[1]]
    ELSE LET x == Direct(tree[2], fv)
             y == Direct(tree[3], fv)
         IN  IF x = Undefined \/ y = Undefined THEN Undefined
             ELSE CASE tree[1] = "+" -> NumAdd(x, y)
                    [] tree[1] = "-" -> NumSub(x, y)
                    [] tree[1] = "*" -> NumMul(x, y)
                    [] tree[1] = "/" -> IF IsZero(y) THEN Undefined ELSE NumDiv(x, y)

\* the result of the call is the direct evaluation, where that is defined
EqualsDirect ==
    LET direct == Direct(Meaning(call.expression), call.snapshot.field_values)
    IN  direct # Undefined => Gave(direct)

\* evaluate_formula on another expression over the snapshot of the call
ResultOf(e) ==
    evaluate_formula(e, call.snapshot.field_values, call.snapshot.items,
                     call.snapshot.refs)

\* a + b = b + a and a * b = b * a
Commutes ==
    /\ call.expression = Sp("a", "+", "b") => outcome = ResultOf(Sp("b", "+", "a"))
    /\ call.expression = Sp("a", "*", "b") => outcome = ResultOf(Sp("b", "*", "a"))

LeftGrouped == <<"(", "a", " ", "+", " ", "b", ")", " ", "+", " ", "c">>

RightGrouped == <<"a", " ", "+", " ", "(", "b", " ", "+", " ", "c", ")">>

\* (a + b) + c = a + (b + c)
Associates == call.expression = LeftGrouped => outcome = ResultOf(RightGrouped)

\* a, b and c are exact values
ExactlySupplied == call.snapshot.field_values \in ExactFieldValues

EvaluatedAs(e) == Called /\ call.fn = "evaluate_formula" /\ call.expression = e

\* the list field is in the snapshot and the column occurs in one of its rows
NamesListAndColumn(p) ==
    /\ "items" \in DOMAIN call.snapshot.items
    /\ p.column \in SubKeysOf(call.snapshot.items)

TokensIn(e) == {e[i] : i \in 1..Len(e)} \cap TokenIdentifiers

\* x is the key of a list field of the snapshot or of a cell of its rows
IsListOrSubKey(x) ==
    x \in DOMAIN call.snapshot.items \/ x \in SubKeysOf(call.snapshot.items)

\* x is a sub-key that a scalar of the same key shadows
Shadowed(x) ==
    x \notin DOMAIN call.snapshot.items /\ x \in DOMAIN call.snapshot.field_values

NamespaceBuilt == Called /\ call.fn = "_make_evaluator"

\* what a name resolves to by the precedence operator token, list-field key,
\* scalar key, sub-key
ByPrecedence(k) ==
    LET fv == call.snapshot.field_values
    IN  IF k \in OpNames THEN Str(OpOf(k))
        ELSE IF k \in DOMAIN call.snapshot.items THEN Str(k)
        ELSE IF k \in DOMAIN fv THEN (IF fv[k] = None THEN IntV(0) ELSE fv[k])
        ELSE Str(k)

\* C29: in the namespace of one evaluation an operator token resolves to its
\* operator name, a list-field key to its own name also when a scalar has the
\* key, and a sub-key to its own name unless a scalar or a list field has the
\* key, whose binding is then kept.
C29_NamePrecedence ==
    NamespaceBuilt =>
        \A k \in ProbedNames :
            (k \in OpNames \cup DOMAIN call.snapshot.items \cup SubKeysOf(call.snapshot.items))
                => outcome.result[k] = ByPrecedence(k)

\* C29 witness: with scalars under the keys score, items and op_eq and rows
\* with the columns score and status, score kept the scalar's number, items and
\* status resolved to their names and op_eq to "eq".
C29_Witness ==
    /\ NamespaceBuilt
    /\ call.snapshot.items = Items1
    /\ call.snapshot.field_values = [k \in {"score", "items", "op_eq"} |-> IntV(5)]
    /\ outcome.result["score"] = IntV(5)
    /\ outcome.result["items"] = Str("items")
    /\ outcome.result["status"] = Str("status")
    /\ outcome.result["op_eq"] = Str("eq")

\* C30: a conditional group function whose operator argument is none of
\* eq, neq, gt, gte, lt, lte (an unbound eq or neq, a quoted token, a number)
\* selects no row, with a numeric filter cell or without, and returns 0.
C30_UnknownOperatorSelectsNothing ==
    \A e \in BadOperatorCalls : EvaluatedAs(e) => Gave(IntV(0))

\* C30 witness: COUNT_ITEMS_WHERE(items, status, eq, 1) over rows with the
\* statuses 1, 0 and none returned 0.
C30_Witness ==
    /\ EvaluatedAs(Call4("COUNT_ITEMS_WHERE", "items", "status", "eq", "1"))
    /\ call.snapshot.items = Items1
    /\ call.snapshot.field_values = NoNames
    /\ Gave(IntV(0))

(***************************************************************************)
(* Properties of the arguments of evaluate_formula in a save (Spec).       *)
(***************************************************************************)
\* the formula loop evaluates kpi.fields[idx] in this step
EvaluatesField == pc = "formulas" /\ idx <= Len(fields) /\ ~Skipped(fields[idx])

\* the names _make_evaluator injects for the list data of the run
InjectedNames ==
    OpNames \cup DOMAIN multi_line_items_data \cup SubKeysOf(multi_line_items_data)

\* C23: an evaluation of the formula loop leaves the list rows and the
\* cross-KPI values of the run unchanged, and changes the scalar map by
\* nothing but the loop's binding of the field's own key to the result: no
\* other key appears, disappears or changes its value, so no name injected
\* for the evaluation (operator token, list key, sub-key) shows in the map.
C23_EvaluationLeavesArguments ==
    [][EvaluatesField =>
        /\ multi_line_items_data' = multi_line_items_data
        /\ other_kpi_values' = other_kpi_values
        /\ DOMAIN value_by_key \subseteq DOMAIN value_by_key'
        /\ DOMAIN value_by_key' \subseteq DOMAIN value_by_key \cup {fields[idx].key}
        /\ \A k \in DOMAIN value_by_key \ {fields[idx].key} :
               value_by_key'[k] = value_by_key[k]
        /\ (fields[idx].key \in DOMAIN value_by_key' /\ pc' = "formulas")
               => \/ value_by_key'[fields[idx].key] = session'[idx].value_number
                  \/ /\ session'[idx].value_number = None
                     /\ fields[idx].key \in DOMAIN value_by_key
                     /\ value_by_key'[fields[idx].key] = value_by_key[fields[idx].key]]_vars

\* C23 witness: a save with rows for the list field has evaluated f1 and
\* f2 = SUM_ITEMS(items, score) = 15; the scalar map holds the request's
\* numbers and the two results and none of the injected names.
C23_Witness ==
    /\ pc = "formulas"
    /\ idx > Len(fields)
    /\ fields[5].formula_expression = <<"SUM_ITEMS", "(", "items", ",", "score", ")">>
    /\ multi_line_items_data = Items1
    /\ session[5].value_number = IntV(15)
    /\ DOMAIN value_by_key = {"a", "b", "f1", "f2"}
    /\ DOMAIN value_by_key \cap InjectedNames = {}

\* C25: in a save every number field and every list field contributes the
\* value the entry holds for it to the namespace of the formula loop: the
\* request's value, or for a field that is not in the request the stored
\* number or the stored rows.
C25_StoredValuesContribute ==
    pc = "formulas" =>
        /\ \A i \in FieldIdsOfType("number") :
               session[i].value_number # None
                   => /\ fields[i].key \in DOMAIN value_by_key
                      /\ value_by_key[fields[i].key] = session[i].value_number
        /\ \A i \in FieldIdsOfType("multi_line_items") :
               session[i].value_json.is_list
                   => /\ fields[i].key \in DOMAIN multi_line_items_data
                      /\ multi_line_items_data[fields[i].key] = session[i].value_json.rows

(***************************************************************************)
(* Properties of the requests on one entry (specification SpecRequests).   *)
(***************************************************************************)
\* a request of the operation has just been answered with None or a refusal
Refused(op) == pc = "refused" /\ req.op = op

\* the step begins a request that calls save_entry_values, submit_entry or
\* the row upload
BeginsDataRequest ==
    /\ pc = "idle"
    /\ pc' # "idle"
    /\ \/ req'.op \in {"save", "submit", "upload"}
       \/ req'.op = "sync" /\ DOMAIN req'.number \cup DOMAIN req'.json # {}

\* C26: while the entry is locked no save, submit, row upload or API sync
\* changes its stored field values, its formula results, its draft flag,
\* submitted_at, user or updated_at; save_entry_values and submit_entry
\* return None and the upload is refused; the only step that changes a locked
\* entry is the unlock by lock_entry, which changes the lock and updated_at.
C26_LockedEntryUnchanged ==
    [][is_locked =>
        /\ db' = db
        /\ session' = session
        /\ [entry' EXCEPT !.updated_at = entry.updated_at] = entry
        /\ is_locked' => entry' = entry
        /\ is_locked' # is_locked => pc = "idle" /\ pc' = "idle"
        /\ BeginsDataRequest => pc' = "refused"]_vars

\* C26 witness: user 1 saved numbers and rows, the entry was locked, and the
\* submit of user 2 was answered with None: the entry is still a draft of
\* user 1 without submitted_at.
C26_Witness ==
    /\ is_locked
    /\ Refused("submit")
    /\ req.user_id = 2
    /\ entry.user_id = 1
    /\ entry.is_draft
    /\ entry.submitted_at = None
    /\ db[3].value_number = IntV(2 * MaxVal)
    /\ db[4].value_json.is_list

\* the result of kpi.fields[i] evaluated over the rows now stored
OverStoredRows(i) ==
    evaluate_formula(fields[i].formula_expression, NoNames,
                     [k \in {fields[j].key : j \in {j \in FieldIdsOfType("multi_line_items") :
                                                       db[j].value_json.is_list}} |->
                         db[CHOOSE j \in FieldIdsOfType("multi_line_items") :
                                fields[j].key = k].value_json.rows],
                     NoRefs).result

\* the step is an upload that was not refused
Uploads == pc = "idle" /\ req'.op = "upload" /\ pc' = "returned"

\* C27: an upload replaces the stored rows of the list field by the file's
\* rows or, with append, extends them, and changes no other stored value: the
\* results of the formula fields stay as the last save computed them.  A save
\* that returns stores the aggregate over the rows then stored.
C27_UploadLeavesFormulaValues ==
    [][/\ Uploads =>
            /\ \A i \in FieldIds \ FieldIdsOfType("multi_line_items") : db'[i] = db[i]
            /\ \A i \in FieldIdsOfType("multi_line_items") :
                   /\ db'[i].value_number = db[i].value_number
                   /\ \E items \in UploadedRows :
                          \/ db'[i].value_json = JsonList(items)
                          \/ /\ db[i].value_json.is_list
                             /\ db'[i].value_json = JsonList(db[i].value_json.rows \o items)
       /\ (pc = "returned" /\ idx > Len(fields)) => db[5].value_number = OverStoredRows(5)]_vars

\* C27 witness: a save stored three rows and SUM_ITEMS(items, score) = 15; an
\* upload replaced the rows by one row of score 2; the stored result is still
\* 15 and the formula over the stored rows is 2.
C27_Witness ==
    /\ pc = "returned"
    /\ req.op = "upload"
    /\ Len(db[4].value_json.rows) = 1
    /\ db[5].value_number = IntV(15)
    /\ OverStoredRows(5) = IntV(2)

\* the step is a submit that was not refused
Submits == pc = "idle" /\ req'.op = "submit" /\ pc' = "returned"

\* C28: the entry starts as a draft without submitted_at; a submit that
\* succeeds makes it a non-draft with submitted_at set to the time of the
\* submit; and no step of a save, submit, sync, upload, lock or unlock makes
\* a submitted entry a draft again or clears its submitted_at.
C28_SubmittedStaysSubmitted ==
    /\ entry.is_draft /\ entry.submitted_at = None
    /\ [][/\ Submits => ~entry'.is_draft /\ entry'.submitted_at = IntV(now')
          /\ ~entry.is_draft => ~entry'.is_draft /\ entry'.submitted_at # None
          /\ entry'.is_draft = (entry'.submitted_at = None)]_vars

\* C28 witness: the entry was submitted and a later save of user 2 returned:
\* it is not a draft and its submitted_at is earlier than its updated_at.
C28_Witness ==
    /\ pc = "returned"
    /\ req.op = "save"
    /\ entry.user_id = 2
    /\ ~entry.is_draft
    /\ entry.submitted_at # None
    /\ entry.submitted_at.n < entry.updated_at.n
    /\ ~is_locked

(***************************************************************************)
(* Properties of get_or_create_entry (specification SpecCreate).           *)
(***************************************************************************)
\* the call of p has returned no entry
ReturnedNone(p) ==
    calls[p].pc \in {"returned", "committed", "rolled back"} /\ ~calls[p].entry

\* C24: in every state of every interleaving of get_or_create_entry calls the
\* table holds at most one row per (organization, KPI, year), pending rows
\* included; every row is of a KPI that belongs to the row's organization; and
\* a call for a KPI that does not belong to the organization returns no entry
\* and has inserted nothing.
C24_OneEntryPerKey ==
    /\ \A a \in CallArgs : Cardinality({r \in kpi_entries : OfKey(r, a)}) <= 1
    /\ \A r \in kpi_entries : resolve_org_and_kpi(r.kpi_id) = r.organization_id
    /\ \A p \in Callers :
           (/\ calls[p].pc \notin {"idle", "select", "resolve"}
            /\ resolve_org_and_kpi(calls[p].args.kpi_id) # calls[p].args.organization_id)
               => /\ ReturnedNone(p)
                  /\ ~calls[p].created
                  /\ \A r \in kpi_entries : r.tx # p

\* C24 witness: callers 1 and 2 asked for the same (organization, KPI, year),
\* both selected before a row was committed and found none; caller 1 created
\* and committed the entry, caller 2's insert raised; the table has one row.
C24_Witness ==
    /\ calls[1].args = calls[2].args
    /\ calls[1].pc = "committed"
    /\ calls[1].created
    /\ calls[2].pc = "raised"
    /\ Cardinality(kpi_entries) = 1

====
